---- MODULE Spec2Model ----
(***************************************************************************)
(* State-machine model of FhirClient (src/src/client.ts, the class at      *)
(* lines 255-538): the request executor with its LRU/TTL response cache,   *)
(* the public operations that call it, and the fetchAll pagination walk.   *)
(*                                                                         *)
(* JavaScript runs each stretch of code between two awaits atomically, so  *)
(* every action below is one such stretch: the call of an operation up to  *)
(* the transport call it awaits, the continuation of request() when the    *)
(* transport settles, and the continuation of the operation when request() *)
(* has returned.                                                           *)
(***************************************************************************)
EXTENDS Integers, Sequences, FiniteSets, TLC

VARIABLES
    config,         \* FhirClientConfig: [cacheEnable, maxFetchAllResults,
                    \*                    fhirVersion, headers]
    client,         \* this.client: the defaults the Axios instance was made with
    cache,          \* this.cache: the LRU entries, least recently used first
    pc,             \* per caller: "idle", "awaiting", "returned", "done"
    op,             \* per caller: the public operation it is running
    req,            \* per caller: the request() invocation in progress
    currentBundle,  \* per caller: what request() returned last
    results,        \* per caller: fetchAllPages' accumulated results
    reqs,           \* per caller: request() invocations of this operation
    tcalls,         \* per caller: transport calls of this operation
    outcome,        \* per caller: how the operation ended
    received,       \* history: resources of the bodies request() returned
    pages,          \* history: number of bodies request() returned
    wire,           \* history: how the caller's last transport call settled
    args,           \* a call of an exported function: its arguments
    heap,           \* ... the objects and arrays its arguments refer to
    ret             \* ... and how it ended

history == <<received, pages, wire>>
util == <<args, heap, ret>>
vars == <<config, client, cache, pc, op, req, currentBundle, results, reqs, tcalls,
          outcome, received, pages, wire, args, heap, ret>>

(***************************************************************************)
(* Bounds of the model.                                                    *)
(***************************************************************************)
\* The callers that may have an operation on the client.
Procs == {"a", "b"}
\* config.cache.max, scaled down so that eviction happens.
CacheMax == 2
\* config.cache.ttl, in clock ticks.
Ttl == 1
\* Cap on the request() invocations of one operation (a walk may be endless).
MaxReqs == 3

\* The fixed default of the fetchAll bound.
DefaultMaxResults == 10000

(***************************************************************************)
(* Values.  A response body is a record: kind "bundle" is a parsed JSON    *)
(* object (truthy), kind "empty" is the empty string axios yields for an   *)
(* empty body (falsy), kind "undefined" is what LRUCache.get returns on a  *)
(* miss.  entry is the Bundle's entry array, each element the id of the    *)
(* entry's resource or NoResource; hasNext tells whether link holds a link *)
(* with relation 'next', and nextUrl is the url of the first such link     *)
(* (<<>> when it is empty or absent); mode is search.mode of each entry,   *)
(* "" for an entry without one.  A url is its sequence of path segments:   *)
(* <<"Patient", "1">> is 'Patient/1'.                                      *)
(***************************************************************************)
NoResource == 0
Undefined ==
    [kind |-> "undefined", entry |-> <<>>, hasNext |-> FALSE, nextUrl |-> <<>>,
     mode |-> <<>>]
EmptyBody ==
    [kind |-> "empty", entry |-> <<>>, hasNext |-> FALSE, nextUrl |-> <<>>,
     mode |-> <<>>]
Bundle(e, h, u) ==
    [kind |-> "bundle", entry |-> e, hasNext |-> h, nextUrl |-> u,
     mode |-> [i \in 1..Len(e) |-> ""]]
\* A searchset whose entries carry the search modes m.
SearchSet(e, m, h) == [Bundle(e, h, <<>>) EXCEPT !.mode = m]

\* JavaScript truthiness of a response body.
Truthy(d) == d.kind = "bundle"

\* An absent optional number is <<>>, a given one <<n>>.
Absent == <<>>
Given(n) == <<n>>
IsGiven(o) == Len(o) > 0

\* a ?? b
Nullish(a, b) == IF IsGiven(a) THEN a ELSE b

\* String.prototype.toLowerCase on the method names in use.
ToLowerCase(m) ==
    CASE m = "GET" -> "get"
      [] m = "POST" -> "post"
      [] m = "PUT" -> "put"
      [] m = "DELETE" -> "delete"
      [] m = "PATCH" -> "patch"
      [] OTHER -> m

\* An AxiosRequestConfig: params is present only when hasParams, headers is
\* the headers object, <<>> when the config has none, and data is the form
\* body of a POST search (the resource a create, an update or a bundle
\* operation sends as data is the operation's arg).
Request(m, u) ==
    [method |-> m, url |-> u, hasParams |-> FALSE, params |-> <<>>,
     headers |-> <<>>, data |-> <<>>]
RequestWithParams(m, u, ps) ==
    [method |-> m, url |-> u, hasParams |-> TRUE, params |-> ps,
     headers |-> <<>>, data |-> <<>>]
RequestWithHeaders(m, u, hs) ==
    [method |-> m, url |-> u, hasParams |-> FALSE, params |-> <<>>,
     headers |-> hs, data |-> <<>>]

\* Mutant: the key leaves the params out.
CacheKeyWithoutParams(c) == <<<<"method", c.method>>, <<"url", c.url>>>>

\* JSON.stringify(config): the properties in insertion order, an absent
\* property left out.  It is put to use for GET requests only, and the
\* operations build those without headers.
CacheKey(c) ==
    <<<<"method", c.method>>, <<"url", c.url>>>>
        \o (IF c.hasParams THEN <<<<"params", c.params>>>> ELSE <<>>)

(***************************************************************************)
(* Objects.  An object is its own properties in insertion order, each a    *)
(* record of key and value.                                                *)
(***************************************************************************)
HasOwn(m, k) == \E i \in 1..Len(m) : m[i].key = k

\* o[k] = v
Put(m, k, v) ==
    IF HasOwn(m, k)
    THEN [m EXCEPT ![CHOOSE i \in 1..Len(m) : m[i].key = k].value = v]
    ELSE Append(m, [key |-> k, value |-> v])

\* { ...a, ...b }
RECURSIVE Spread(_, _)
Spread(a, b) ==
    IF b = <<>> THEN a
    ELSE Spread(Put(a, Head(b).key, Head(b).value), Tail(b))

(***************************************************************************)
(* utils.ts: normalizeFhirVersion(version).  How a call of an exported     *)
(* function or of the constructor ended is a record: the value returned,   *)
(* or the fixed text of the Error's message and the values interpolated    *)
(* into it.                                                                *)
(***************************************************************************)
NoRet ==
    [fn |-> "", status |-> "none", value |-> <<>>, error |-> "",
     detail |-> <<>>]

\* The version tokens the type FhirVersion admits.
FhirVersion ==
    {"3.0.1", "3.0", "R3", "4.0.1", "4.0", "R4", "5.0.0", "5.0", "R5"}

\* `Unsupported FHIR version: ${version}`
UnsupportedVersion == "Unsupported FHIR version"

\* Mutant: the token is matched without regard to case.
normalizeFhirVersionIgnoringCase(version) ==
    IF version \in {"3.0.1", "3.0", "R3", "r3"}
    THEN [NoRet EXCEPT !.status = "ok", !.value = <<"3.0">>]
    ELSE IF version \in {"4.0.1", "4.0", "R4", "r4"}
    THEN [NoRet EXCEPT !.status = "ok", !.value = <<"4.0">>]
    ELSE IF version \in {"5.0.0", "5.0", "R5", "r5"}
    THEN [NoRet EXCEPT !.status = "ok", !.value = <<"5.0">>]
    ELSE [NoRet EXCEPT !.status = "error", !.error = UnsupportedVersion,
                       !.detail = <<version>>]

\* The switch over the version token.
normalizeFhirVersion(version) ==
    IF version \in {"3.0.1", "3.0", "R3"}
    THEN [NoRet EXCEPT !.status = "ok", !.value = <<"3.0">>]
    ELSE IF version \in {"4.0.1", "4.0", "R4"}
    THEN [NoRet EXCEPT !.status = "ok", !.value = <<"4.0">>]
    ELSE IF version \in {"5.0.0", "5.0", "R5"}
    THEN [NoRet EXCEPT !.status = "ok", !.value = <<"5.0">>]
    ELSE [NoRet EXCEPT !.status = "error", !.error = UnsupportedVersion,
                       !.detail = <<version>>]

\* `application/fhir+json; fhirVersion=${fhirVersion}`
FhirJson(fhirVersion) == <<"application/fhir+json; fhirVersion=", fhirVersion>>

(***************************************************************************)
(* The constructor.  Of the defaults it hands to axios.create the model    *)
(* keeps the headers; baseURL, timeout and auth are passed through.        *)
(***************************************************************************)
NoHeaders == <<>>
NoClient == [constructed |-> FALSE, headers |-> NoHeaders]

\* { Accept: ..., ...config.headers } for a configuration whose version is
\* supported.
NewClient(cfg) ==
    [constructed |-> TRUE,
     headers |->
         Spread(<<[key |-> "Accept",
                   value |-> FhirJson(normalizeFhirVersion(cfg.fhirVersion).value[1])]>>,
                cfg.headers)]

(***************************************************************************)
(* LRUCache (lru-cache), as constructed at client.ts:290-293: max entries, *)
(* ttl, no stale reads, no age refresh on get.                             *)
(***************************************************************************)
HasKey(c, k) == \E i \in 1..Len(c) : c[i].key = k
IndexOf(c, k) == CHOOSE i \in 1..Len(c) : c[i].key = k
RemoveAt(c, i) == SubSeq(c, 1, i - 1) \o SubSeq(c, i + 1, Len(c))
IsStale(e) == e.age > Ttl

\* The value cache.get(k) returns.
LruGet(c, k) ==
    IF HasKey(c, k) /\ ~IsStale(c[IndexOf(c, k)])
    THEN c[IndexOf(c, k)].value
    ELSE Undefined

\* Mutant: a lookup leaves the recency order as it is.
LruTouchKeepingOrder(c, k) ==
    IF ~HasKey(c, k) THEN c
    ELSE LET i == IndexOf(c, k) IN
         IF IsStale(c[i]) THEN RemoveAt(c, i)
         ELSE c

\* The cache after cache.get(k): a stale entry is deleted, a live one becomes
\* the most recently used.
LruTouch(c, k) ==
    IF ~HasKey(c, k) THEN c
    ELSE LET i == IndexOf(c, k) IN
         IF IsStale(c[i]) THEN RemoveAt(c, i)
         ELSE Append(RemoveAt(c, i), c[i])

\* Mutant: a key the cache already holds keeps the value it has.
LruSetKeepingFirst(c, k, v) ==
    LET e == [key |-> k, value |-> v, age |-> 0] IN
    IF HasKey(c, k) THEN c
    ELSE IF Len(c) >= CacheMax THEN Append(Tail(c), e)
    ELSE Append(c, e)

\* The cache after cache.set(k, v): the entry is (re)written with a fresh age
\* as the most recently used; a new key at capacity evicts the least recently
\* used entry.
LruSet(c, k, v) ==
    LET e == [key |-> k, value |-> v, age |-> 0] IN
    IF HasKey(c, k) THEN Append(RemoveAt(c, IndexOf(c, k)), e)
    ELSE IF Len(c) >= CacheMax THEN Append(Tail(c), e)
    ELSE Append(c, e)

(***************************************************************************)
(* request(config, noCache)                                                *)
(***************************************************************************)
\* Mutant: the cache is created whether or not it is enabled.
CacheConstructedAlways == TRUE

\* The constructor creates this.cache only if (config.cache?.enable).
CacheConstructed == config.cacheEnable

\* Mutant: the noCache flag is not consulted.
CacheEligibleIgnoringNoCache(r) ==
    CacheConstructed /\ ToLowerCase(r.cfg.method) = "get"

\* Mutant: the method is not consulted.
CacheEligibleAnyMethod(r) == CacheConstructed /\ ~r.noCache

\* this.cache && config.method?.toLowerCase() === 'get' && !noCache
CacheEligible(r) ==
    CacheConstructed /\ ToLowerCase(r.cfg.method) = "get" /\ ~r.noCache

\* if (cached) return cached
CacheHit(r) == CacheEligible(r) /\ Truthy(LruGet(cache, CacheKey(r.cfg)))

\* Mutant: the entries without a resource are pushed as well.
ResourcesOfAllEntries(entry) == entry

\* results.push(...bundle.entry.map(e => e.resource).filter(r => !!r))
RECURSIVE Resources(_)
Resources(entry) ==
    IF entry = <<>> THEN <<>>
    ELSE (IF Head(entry) # NoResource THEN <<Head(entry)>> ELSE <<>>)
             \o Resources(Tail(entry))

\* The resources a page carries, in entry order.
PageResources(d) == SelectSeq(d.entry, LAMBDA x : x # NoResource)

\* 'application/x-www-form-urlencoded'
FormUrlEncoded == <<"application/x-www-form-urlencoded">>

\* !config.headers?.['Content-Type']
LacksContentType(c) ==
    \A i \in 1..Len(c.headers) :
        c.headers[i].key = "Content-Type" => c.headers[i].value = <<>>

\* Mutant: the Content-Type is set on every mutation request, supplied or not.
EnsureContentTypeAlways(c) ==
    IF ToLowerCase(c.method) \in {"post", "put", "patch"}
    THEN [c EXCEPT
             !.headers =
                 Spread(@, <<[key |-> "Content-Type",
                              value |-> FhirJson(
                                  normalizeFhirVersion(config.fhirVersion).value[1])]>>)]
    ELSE c

\* Mutant: the Content-Type carries the version token as configured.
EnsureContentTypeOfToken(c) ==
    IF ToLowerCase(c.method) \in {"post", "put", "patch"} /\ LacksContentType(c)
    THEN [c EXCEPT
             !.headers =
                 Spread(@, <<[key |-> "Content-Type",
                              value |-> FhirJson(config.fhirVersion)]>>)]
    ELSE c

\* The config after 'Ensure Content-Type is set for mutation requests'.
EnsureContentType(c) ==
    IF ToLowerCase(c.method) \in {"post", "put", "patch"} /\ LacksContentType(c)
    THEN [c EXCEPT
             !.headers =
                 Spread(@, <<[key |-> "Content-Type",
                              value |-> FhirJson(
                                  normalizeFhirVersion(config.fhirVersion).value[1])]>>)]
    ELSE c

\* request() from its entry to its first await or to its return on a hit.
\* The config handed to the transport is the caller's object, its headers
\* completed in place.
Issue(p, r) ==
    /\ req' = [req EXCEPT
                  ![p] = IF CacheHit(r) THEN r
                         ELSE [r EXCEPT !.cfg = EnsureContentType(r.cfg)]]
    /\ reqs' = [reqs EXCEPT ![p] = @ + 1]
    /\ cache' = IF CacheEligible(r) THEN LruTouch(cache, CacheKey(r.cfg))
                ELSE cache
    /\ IF CacheHit(r)
       THEN /\ pc' = [pc EXCEPT ![p] = "returned"]
            /\ currentBundle' =
                   [currentBundle EXCEPT ![p] = LruGet(cache, CacheKey(r.cfg))]
            /\ received' =
                   [received EXCEPT
                       ![p] = @ \o PageResources(LruGet(cache, CacheKey(r.cfg)))]
            /\ pages' = [pages EXCEPT ![p] = @ + 1]
            /\ tcalls' = tcalls
       ELSE /\ pc' = [pc EXCEPT ![p] = "awaiting"]
            /\ tcalls' = [tcalls EXCEPT ![p] = @ + 1]
            /\ UNCHANGED <<currentBundle, received, pages>>
    /\ wire' = wire

\* No exported function is being called.
NoArgs == [query |-> <<>>, hasParams |-> FALSE, version |-> <<>>]
NoHeap == [params |-> <<>>, arrays |-> <<>>]

(***************************************************************************)
(* utils.ts: mergeSearchParams(query, params).  A string is the sequence   *)
(* of its pieces: a piece is '=' or '&' or a run of text without either,   *)
(* '%' or '+' (so that percent-decoding leaves it as it is).  A JavaScript *)
(* value is a record: a string, an array (by reference into heap.arrays),  *)
(* a function, or undefined.  The caller's params object is heap.params,   *)
(* its own entries in insertion order.                                     *)
(***************************************************************************)
UndefinedValue == [kind |-> "undefined", s |-> <<>>, ref |-> 0]
Scalar(s) == [kind |-> "scalar", s |-> s, ref |-> 0]
ArrayRef(a) == [kind |-> "array", s |-> <<>>, ref |-> a]
FunctionValue(k) == [kind |-> "function", s |-> <<"function">> \o k, ref |-> 0]

\* The properties every object literal inherits from Object.prototype.
ObjectPrototypeMembers ==
    {<<"constructor">>, <<"toString">>, <<"valueOf">>, <<"hasOwnProperty">>}

\* String.prototype.split on a separator piece.
RECURSIVE Split(_, _)
Split(q, sep) ==
    IF q = <<>> THEN <<<<>>>>
    ELSE LET r == Split(Tail(q), sep) IN
         IF Head(q) = sep THEN <<<<>>>> \o r
         ELSE <<<<Head(q)>> \o Head(r)>> \o Tail(r)

\* One name=value pair of a query: the name ends at the first '=', a pair
\* without '=' has the empty value.
ParsePair(part) ==
    IF \E i \in 1..Len(part) : part[i] = "="
    THEN LET i == CHOOSE i \in 1..Len(part) :
                      /\ part[i] = "="
                      /\ \A j \in 1..(i - 1) : part[j] # "="
         IN [key |-> SubSeq(part, 1, i - 1),
             value |-> SubSeq(part, i + 1, Len(part))]
    ELSE [key |-> part, value |-> <<>>]

\* new URLSearchParams(query): the pairs between the '&', empty ones skipped.
\* A leading '?' is not part of the query.
URLSearchParams(query) ==
    LET q == IF query # <<>> /\ Head(query) = "?" THEN Tail(query) ELSE query
        parts == SelectSeq(Split(q, "&"), LAMBDA x : x # <<>>)
    IN [i \in 1..Len(parts) |-> ParsePair(parts[i])]

\* merged[key] on the object literal merged.
Get(m, k) ==
    IF HasOwn(m, k) THEN m[CHOOSE i \in 1..Len(m) : m[i].key = k].value
    ELSE IF k \in ObjectPrototypeMembers THEN FunctionValue(k)
    ELSE UndefinedValue
\* A new array literal: the state with the array allocated and merged[key]
\* referring to it.
WithNewArray(st, key, items) ==
    [st EXCEPT !.arrays = Append(@, items),
               !.merged = Put(@, key, ArrayRef(Len(st.arrays) + 1))]

\* The callback of urlParams.forEach.
AddQueryValue(st, key, value) ==
    LET existing == Get(st.merged, key) IN
    IF existing.kind # "undefined"
    THEN IF existing.kind = "array"
         THEN [st EXCEPT !.arrays[existing.ref] = Append(@, Scalar(value))]
         ELSE WithNewArray(st, key, <<existing, Scalar(value)>>)
    ELSE [st EXCEPT !.merged = Put(@, key, Scalar(value))]

\* Mutant: an explicit array is extended in place with the existing value.
AddExplicitInPlace(st, key, value) ==
    LET existing == Get(st.merged, key) IN
    IF existing.kind # "undefined"
    THEN IF existing.kind = "array"
         THEN IF value.kind = "array"
              THEN [st EXCEPT !.arrays[existing.ref] = @ \o st.arrays[value.ref]]
              ELSE [st EXCEPT !.arrays[existing.ref] = Append(@, value)]
         ELSE IF value.kind = "array"
              THEN [st EXCEPT !.arrays[value.ref] = <<existing>> \o @,
                              !.merged = Put(@, key, value)]
              ELSE WithNewArray(st, key, <<existing, value>>)
    ELSE [st EXCEPT !.merged = Put(@, key, value)]

\* The callback of Object.entries(params).forEach.
AddExplicit(st, key, value) ==
    LET existing == Get(st.merged, key) IN
    IF existing.kind # "undefined"
    THEN IF existing.kind = "array"
         THEN IF value.kind = "array"
              THEN [st EXCEPT !.arrays[existing.ref] = @ \o st.arrays[value.ref]]
              ELSE [st EXCEPT !.arrays[existing.ref] = Append(@, value)]
         ELSE IF value.kind = "array"
              THEN WithNewArray(st, key, <<existing>> \o st.arrays[value.ref])
              ELSE WithNewArray(st, key, <<existing, value>>)
    ELSE [st EXCEPT !.merged = Put(@, key, value)]

RECURSIVE ForEachQuery(_, _)
ForEachQuery(st, pairs) ==
    IF pairs = <<>> THEN st
    ELSE ForEachQuery(AddQueryValue(st, Head(pairs).key, Head(pairs).value),
                      Tail(pairs))

RECURSIVE ForEachExplicit(_, _)
ForEachExplicit(st, entries) ==
    IF entries = <<>> THEN st
    ELSE ForEachExplicit(AddExplicit(st, Head(entries).key, Head(entries).value),
                         Tail(entries))

\* mergeSearchParams(query, params) run on memory mem: the merged object and
\* the memory it leaves.
mergeSearchParams(query, hasParams, mem) ==
    LET st0 == [merged |-> <<>>, params |-> mem.params, arrays |-> mem.arrays]
        st1 == ForEachQuery(st0, URLSearchParams(query))
    IN IF hasParams THEN ForEachExplicit(st1, mem.params) ELSE st1

\* The caller's memory holding map m: every array literal is an array of its
\* own.
RECURSIVE Allocate(_, _)
Allocate(m, mem) ==
    IF m = <<>> THEN mem
    ELSE LET e == Head(m) IN
         IF e.value.isArray
         THEN Allocate(Tail(m),
                       [params |-> Append(mem.params,
                                          [key |-> e.key,
                                           value |-> ArrayRef(Len(mem.arrays) + 1)]),
                        arrays |-> Append(mem.arrays,
                                          [i \in 1..Len(e.value.items) |->
                                              Scalar(e.value.items[i])])])
         ELSE Allocate(Tail(m),
                       [params |-> Append(mem.params,
                                          [key |-> e.key,
                                           value |-> Scalar(e.value.items[1])]),
                        arrays |-> mem.arrays])

\* The values a JavaScript value stands for: the items of an array, or the
\* value itself.
ValuesOf(v, arrays) ==
    IF v.kind = "array"
    THEN [i \in 1..Len(arrays[v.ref]) |-> arrays[v.ref][i].s]
    ELSE <<v.s>>

\* An object with every array written out.
Deep(m, arrays) ==
    [i \in 1..Len(m) |->
        [key |-> m[i].key, isArray |-> m[i].value.kind = "array",
         items |-> ValuesOf(m[i].value, arrays)]]

(***************************************************************************)
(* The public operations.  An operation is the request it builds and the   *)
(* options that steer it; arg is the resource handed to update,            *)
(* processTransaction or processBatch: its resourceType, its id and, for a *)
(* Bundle, its type, each "" when the resource has none.                   *)
(***************************************************************************)
Resource(rt, id, t) == [resourceType |-> rt, id |-> id, type |-> t]
NoArg == Resource("", "", "")
Operation(n, c, nc, fa, mr, a) ==
    [name |-> n, cfg |-> c, noCache |-> nc, fetchAll |-> fa,
     maxResults |-> mr, arg |-> a, target |-> <<>>, params |-> <<>>,
     hasParams |-> FALSE]
NoOp == Operation("", Request("", <<>>), FALSE, FALSE, Absent, NoArg)
NoReq == [cfg |-> Request("", <<>>), noCache |-> FALSE]

read(resourceType, id, noCache) ==
    Operation("read", Request("GET", <<resourceType, id>>), noCache, FALSE,
              Absent, NoArg)
getCapabilities ==
    Operation("getCapabilities", Request("GET", <<"metadata">>), FALSE, FALSE,
              Absent, NoArg)
processTransaction(bundle) ==
    Operation("processTransaction", Request("POST", <<>>), FALSE, FALSE,
              Absent, bundle)
processBatch(bundle) ==
    Operation("processBatch", Request("POST", <<>>), FALSE, FALSE, Absent,
              bundle)
create(resourceType) ==
    Operation("create", Request("POST", <<resourceType>>), FALSE, FALSE,
              Absent, NoArg)
update(resourceType, id, resource) ==
    Operation("update", Request("PUT", <<resourceType, id>>), FALSE, FALSE,
              Absent, resource)
delete(resourceType, id) ==
    Operation("delete", Request("DELETE", <<resourceType, id>>), FALSE, FALSE,
              Absent, NoArg)

\* The params object a caller wrote, every array written out.  <<>> is an
\* object without entries, and stands for an absent params as well: search
\* and mergeSearchParams treat the two alike.
ByValue(params) ==
    Deep(Allocate(params, NoHeap).params, Allocate(params, NoHeap).arrays)

\* Array.prototype.join
RECURSIVE Join(_, _)
Join(items, sep) ==
    IF items = <<>> THEN <<>>
    ELSE IF Len(items) = 1 THEN items[1]
    ELSE items[1] \o <<sep>> \o Join(Tail(items), sep)

\* String(value): an array gives its items joined with ','.
StringOf(e) == Join(e.items, ",")

\* The percent-encoding of the form serializer, on the pieces in use.
PercentEncode(str) ==
    [i \in 1..Len(str) |->
        CASE str[i] = "," -> "%2C"
          [] str[i] = "=" -> "%3D"
          [] str[i] = "&" -> "%26"
          [] OTHER -> str[i]]

\* new URLSearchParams(Object.entries(searchParams).map(([key, value]) =>
\*     [key, String(value)])).toString()
FormBody(searchParams) ==
    Join([i \in 1..Len(searchParams) |->
             PercentEncode(searchParams[i].key) \o <<"=">>
                 \o PercentEncode(StringOf(searchParams[i]))],
         "&")

\* Mutant: the sub-path is appended unless the url ends with it.
SearchUrlUnlessEndsWith(url) ==
    IF Len(url) >= 2 /\ url[Len(url)] = "_search" THEN url
    ELSE Append(url, "_search")

\* url.includes('/_search') ? url : `${url}/_search`
SearchUrl(url) ==
    IF \E i \in 2..Len(url) : url[i] = "_search" THEN url
    ELSE Append(url, "_search")

\* resourceTypeOrQuery.indexOf('?'), counted from 1; 0 when there is none.
IndexOfQuery(target) ==
    IF \E i \in 1..Len(target) : target[i] = "?"
    THEN CHOOSE i \in 1..Len(target) :
             /\ target[i] = "?"
             /\ \A j \in 1..(i - 1) : target[j] # "?"
    ELSE 0

\* Mutant: the query string of the target is dropped.
SearchParamsWithoutQuery(target, params) == ByValue(params)

\* searchParams: the query of the target merged with params, or params.
SearchParams(target, params) ==
    IF IndexOfQuery(target) # 0
    THEN LET st == mergeSearchParams(
                       SubSeq(target, IndexOfQuery(target) + 1, Len(target)),
                       params # <<>>, Allocate(params, NoHeap))
         IN Deep(st.merged, st.arrays)
    ELSE ByValue(params)

\* search(resourceTypeOrQuery, params, options).  The target is the pieces
\* of the string: the segments of the path and, after a piece '?', the
\* pieces of the query string.
search(target, params, fetchAll, maxResults, asPost, noCache) ==
    LET url == IF IndexOfQuery(target) # 0
               THEN SubSeq(target, 1, IndexOfQuery(target) - 1)
               ELSE target
        searchParams == SearchParams(target, params)
    IN [Operation("search",
                  IF asPost
                  THEN [RequestWithHeaders("POST", SearchUrl(url),
                                           <<[key |-> "Content-Type",
                                              value |-> FormUrlEncoded]>>)
                           EXCEPT !.data = FormBody(searchParams)]
                  ELSE RequestWithParams("GET", url, searchParams),
                  noCache, fetchAll, maxResults, NoArg)
           EXCEPT !.target = target, !.params = params,
                  !.hasParams = params # <<>>]

\* Mutant: processBatch takes any resource.
RejectedByTransactionOnly(o) ==
    /\ o.name = "processTransaction"
    /\ (o.arg.resourceType # "Bundle" \/ o.arg.type # "transaction")

\* The guards of processTransaction and processBatch.
Rejected(o) ==
    \/ /\ o.name = "processTransaction"
       /\ (o.arg.resourceType # "Bundle" \/ o.arg.type # "transaction")
    \/ /\ o.name = "processBatch"
       /\ (o.arg.resourceType # "Bundle" \/ o.arg.type # "batch")

\* Mutant: the client-level bound is consulted before the per-search one.
EffectiveBoundClientFirst(o) ==
    Nullish(config.maxFetchAllResults,
            Nullish(o.maxResults, Given(DefaultMaxResults)))[1]

\* options.maxResults ?? this.config.maxFetchAllResults ?? 10000
EffectiveBound(o) ==
    Nullish(o.maxResults,
            Nullish(config.maxFetchAllResults, Given(DefaultMaxResults)))[1]

\* How an operation ended.  error is the fixed text of the Error's message and
\* detail the values interpolated into it, as strings.
NoOutcome ==
    [status |-> "none", value |-> Undefined, list |-> <<>>, error |-> "",
     detail |-> <<>>]
Returned(v) ==
    [status |-> "ok", value |-> v, list |-> <<>>, error |-> "", detail |-> <<>>]
ReturnedList(l) ==
    [status |-> "ok", value |-> Undefined, list |-> l, error |-> "",
     detail |-> <<>>]
ThrownWith(e, d) ==
    [status |-> "error", value |-> Undefined, list |-> <<>>, error |-> e,
     detail |-> d]
Thrown(e) == ThrownWith(e, <<>>)

\* How a transport call settled.
NotSettled == [status |-> "none", body |-> Undefined, error |-> ""]
Resolved(d) == [status |-> "resolved", body |-> d, error |-> ""]
TransportError(e) == [status |-> "rejected", body |-> Undefined, error |-> e]

\* `Maximum result limit (${maxResults}) exceeded. ...`
LimitExceeded == "Maximum result limit exceeded"
\* `${operation} requires a Bundle resource, got ${bundle.resourceType}`
NotABundle == "requires a Bundle resource"
\* `${operation} requires a Bundle of type '${expected}', got '${bundle.type}'`
WrongBundleType == "requires a Bundle of type"

\* The bundle type an operation insists on.
ExpectedType(o) ==
    IF o.name = "processTransaction" THEN "transaction" ELSE "batch"

(***************************************************************************)
(* Actions.                                                                *)
(***************************************************************************)
\* A caller starts an operation; the client runs it up to its first await.
Call(p, o) ==
    /\ pc[p] = "idle"
    /\ ~Rejected(o)
    /\ op' = [op EXCEPT ![p] = o]
    /\ Issue(p, [cfg |-> o.cfg, noCache |-> o.noCache])
    /\ UNCHANGED <<util, client, config, results, outcome>>

\* processTransaction / processBatch throw before any request is built.
Reject(p, o) ==
    /\ pc[p] = "idle"
    /\ Rejected(o)
    /\ op' = [op EXCEPT ![p] = o]
    /\ pc' = [pc EXCEPT ![p] = "done"]
    /\ outcome' =
           [outcome EXCEPT
               ![p] = IF o.arg.resourceType # "Bundle"
                      THEN ThrownWith(NotABundle, <<o.name, o.arg.resourceType>>)
                      ELSE ThrownWith(WrongBundleType,
                                      <<o.name, ExpectedType(o), o.arg.type>>)]
    /\ UNCHANGED <<util, client, config, cache, req, currentBundle, results, reqs, tcalls,
                   history>>

\* The transport resolves: request() stores the body when the request is
\* cache-eligible and returns it.
TransportSuccess(p, d) ==
    /\ pc[p] = "awaiting"
    /\ cache' = IF CacheEligible(req[p])
                THEN LruSet(cache, CacheKey(req[p].cfg), d)
                ELSE cache
    /\ currentBundle' = [currentBundle EXCEPT ![p] = d]
    /\ received' = [received EXCEPT ![p] = @ \o PageResources(d)]
    /\ pages' = [pages EXCEPT ![p] = @ + 1]
    /\ wire' = [wire EXCEPT ![p] = Resolved(d)]
    /\ pc' = [pc EXCEPT ![p] = "returned"]
    /\ UNCHANGED <<util, client, config, op, req, results, reqs, tcalls, outcome>>

\* Mutant: the store is done in a finally block, on the failure path too.
TransportFailureStoring(p, e) ==
    /\ pc[p] = "awaiting"
    /\ pc' = [pc EXCEPT ![p] = "done"]
    /\ cache' = IF CacheEligible(req[p])
                THEN LruSet(cache, CacheKey(req[p].cfg), Undefined)
                ELSE cache
    /\ outcome' = [outcome EXCEPT ![p] = Thrown(e)]
    /\ wire' = [wire EXCEPT ![p] = TransportError(e)]
    /\ UNCHANGED <<util, client, config, op, req, currentBundle, results, reqs, tcalls,
                   received, pages>>

\* Mutant: a rejected transport call is tried again.
TransportFailureRetrying(p, e) ==
    /\ pc[p] = "awaiting"
    /\ tcalls' = [tcalls EXCEPT ![p] = @ + 1]
    /\ wire' = [wire EXCEPT ![p] = TransportError(e)]
    /\ UNCHANGED <<util, client, config, cache, pc, op, req, currentBundle, results, reqs,
                   outcome, received, pages>>

\* Mutant: a failed page fetch is caught and ends the walk with what was
\* accumulated so far.
TransportFailureLenient(p, e) ==
    /\ pc[p] = "awaiting"
    /\ pc' = [pc EXCEPT ![p] = "done"]
    /\ outcome' = [outcome EXCEPT
                      ![p] = IF op[p].fetchAll /\ reqs[p] > 1
                             THEN ReturnedList(results[p])
                             ELSE Thrown(e)]
    /\ wire' = [wire EXCEPT ![p] = TransportError(e)]
    /\ UNCHANGED <<util, client, config, cache, op, req, currentBundle, results, reqs,
                   tcalls, received, pages>>

\* The transport rejects: the rejection leaves request() and every caller
\* awaiting it.
TransportFailure(p, e) ==
    /\ pc[p] = "awaiting"
    /\ pc' = [pc EXCEPT ![p] = "done"]
    /\ outcome' = [outcome EXCEPT ![p] = Thrown(e)]
    /\ wire' = [wire EXCEPT ![p] = TransportError(e)]
    /\ UNCHANGED <<util, client, config, cache, op, req, currentBundle, results, reqs,
                   tcalls, received, pages>>

\* Mutant: the bound of fetchAll is applied to a single page as well.
ReturnBounded(p) ==
    /\ pc[p] = "returned"
    /\ ~op[p].fetchAll
    /\ pc' = [pc EXCEPT ![p] = "done"]
    /\ outcome' =
           [outcome EXCEPT
               ![p] = IF Len(Resources(currentBundle[p].entry))
                            > EffectiveBound(op[p])
                      THEN ThrownWith(LimitExceeded,
                                      <<ToString(EffectiveBound(op[p]))>>)
                      ELSE Returned(currentBundle[p])]
    /\ UNCHANGED <<util, client, config, cache, op, req, currentBundle, results, reqs,
                   tcalls, history>>

\* An operation without fetchAll returns what request() returned.
Return(p) ==
    /\ pc[p] = "returned"
    /\ ~op[p].fetchAll
    /\ pc' = [pc EXCEPT ![p] = "done"]
    /\ outcome' = [outcome EXCEPT ![p] = Returned(currentBundle[p])]
    /\ UNCHANGED <<util, client, config, cache, op, req, currentBundle, results, reqs,
                   tcalls, history>>

\* Mutant: the resources of a page are put in front of the earlier ones.
PushedInFront(p) == Resources(currentBundle[p].entry) \o results[p]

\* fetchAllPages: results after the push of the current bundle's resources.
Pushed(p) == results[p] \o Resources(currentBundle[p].entry)

\* Mutant: a 'next' link is followed whether or not it has a url.
HasNextUrlUnchecked(b) == b.hasNext

\* link.some(l => l.relation === 'next') and the found link has a url.
HasNextUrl(b) == b.hasNext /\ b.nextUrl # <<>>

\* Mutant: the bound is checked in the loop only, not after the first page.
OverLimitInLoopOnly(p) ==
    reqs[p] > 1 /\ Len(Pushed(p)) > EffectiveBound(op[p])

\* Mutant: the bound is never checked.
OverLimitNever(p) == FALSE

\* Mutant: reaching the bound counts as exceeding it.
OverLimitAtBound(p) == Len(Pushed(p)) >= EffectiveBound(op[p])

\* if (results.length > maxResults) throw, right after each push.
OverLimit(p) == Len(Pushed(p)) > EffectiveBound(op[p])

WalkLimit(p) ==
    /\ pc[p] = "returned"
    /\ op[p].fetchAll
    /\ OverLimit(p)
    /\ results' = [results EXCEPT ![p] = Pushed(p)]
    /\ pc' = [pc EXCEPT ![p] = "done"]
    /\ outcome' =
           [outcome EXCEPT
               ![p] = ThrownWith(LimitExceeded,
                                 <<ToString(EffectiveBound(op[p]))>>)]
    /\ UNCHANGED <<util, client, config, cache, op, req, currentBundle, reqs, tcalls,
                   history>>

\* Mutant: the next page is requested again while its request is under way.
WalkNextWithoutWaiting(p) ==
    /\ pc[p] \in {"returned", "awaiting"}
    /\ op[p].fetchAll
    /\ HasNextUrl(currentBundle[p])
    /\ reqs[p] < MaxReqs
    /\ results' = [results EXCEPT
                      ![p] = IF pc[p] = "returned" THEN Pushed(p) ELSE @]
    /\ Issue(p, [cfg |-> Request("GET", currentBundle[p].nextUrl),
                 noCache |-> FALSE])
    /\ UNCHANGED <<util, client, config, op, outcome>>

\* Mutant: the next page is requested as the first one was, with its method
\* and its parameters.
WalkNextAsFirstRequest(p) ==
    /\ pc[p] = "returned"
    /\ op[p].fetchAll
    /\ ~OverLimit(p)
    /\ HasNextUrl(currentBundle[p])
    /\ reqs[p] < MaxReqs
    /\ results' = [results EXCEPT ![p] = Pushed(p)]
    /\ Issue(p, [cfg |-> [op[p].cfg EXCEPT !.url = currentBundle[p].nextUrl],
                 noCache |-> FALSE])
    /\ UNCHANGED <<util, client, config, op, outcome>>

\* The loop body up to the await of the next page.
WalkNext(p) ==
    /\ pc[p] = "returned"
    /\ op[p].fetchAll
    /\ ~OverLimit(p)
    /\ HasNextUrl(currentBundle[p])
    /\ reqs[p] < MaxReqs
    /\ results' = [results EXCEPT ![p] = Pushed(p)]
    /\ Issue(p, [cfg |-> Request("GET", currentBundle[p].nextUrl),
                 noCache |-> FALSE])
    /\ UNCHANGED <<util, client, config, op, outcome>>

\* The loop ends: no 'next' link, or one without a url.
WalkDone(p) ==
    /\ pc[p] = "returned"
    /\ op[p].fetchAll
    /\ ~OverLimit(p)
    /\ ~HasNextUrl(currentBundle[p])
    /\ results' = [results EXCEPT ![p] = Pushed(p)]
    /\ pc' = [pc EXCEPT ![p] = "done"]
    /\ outcome' = [outcome EXCEPT ![p] = ReturnedList(Pushed(p))]
    /\ UNCHANGED <<util, client, config, cache, op, req, currentBundle, reqs, tcalls,
                   history>>

\* The caller has taken the result; its frame is gone.
Release(p) ==
    /\ pc[p] = "done"
    /\ pc' = [pc EXCEPT ![p] = "idle"]
    /\ op' = [op EXCEPT ![p] = NoOp]
    /\ req' = [req EXCEPT ![p] = NoReq]
    /\ currentBundle' = [currentBundle EXCEPT ![p] = Undefined]
    /\ results' = [results EXCEPT ![p] = <<>>]
    /\ reqs' = [reqs EXCEPT ![p] = 0]
    /\ tcalls' = [tcalls EXCEPT ![p] = 0]
    /\ received' = [received EXCEPT ![p] = <<>>]
    /\ pages' = [pages EXCEPT ![p] = 0]
    /\ wire' = [wire EXCEPT ![p] = NotSettled]
    /\ outcome' = [outcome EXCEPT ![p] = NoOutcome]
    /\ UNCHANGED <<util, client, config, cache>>

\* Time passes: every entry ages by one tick (ages past the ttl are equal).
Tick ==
    /\ \E i \in 1..Len(cache) : ~IsStale(cache[i])
    /\ cache' = [i \in 1..Len(cache) |->
                    [cache[i] EXCEPT !.age = IF @ > Ttl THEN @ ELSE @ + 1]]
    /\ UNCHANGED <<util, client, config, pc, op, req, currentBundle, results, reqs, tcalls,
                   outcome, history>>

(***************************************************************************)
(* Inputs.                                                                 *)
(***************************************************************************)
\* Rejections of the transport.
Errors == {"Network error", "Request failed with status code 404"}

\* Arguments of processTransaction and processBatch.
Bundles ==
    {Resource("Bundle", "", "transaction"),
     Resource("Bundle", "", "batch"),
     Resource("Bundle", "", ""),
     Resource("Patient", "1", ""),
     Resource("Patient", "1", "transaction")}

\* Arguments of update: a resource that agrees with the type and id given,
\* one with another id, one without id, one without resourceType.
Updates ==
    {Resource("Patient", "1", ""), Resource("Patient", "2", ""),
     Resource("Patient", "", ""), Resource("", "1", "")}

\* Bodies the server answers a single request with.
Bodies ==
    {EmptyBody,
     Bundle(<<1>>, FALSE, <<>>),
     Bundle(<<2>>, TRUE, <<"page2">>)}

\* The operations that issue one request.
Operations ==
    {read("Patient", "1", nc) : nc \in BOOLEAN}
        \cup {getCapabilities, create("Patient"), delete("Patient", "1")}
        \cup {update("Patient", "1", r) : r \in Updates}
        \cup {processTransaction(b) : b \in Bundles}
        \cup {processBatch(b) : b \in Bundles}
        \cup {search(<<"Patient">>, <<>>, FALSE, mr, ap, nc) :
                  mr \in {Absent, Given(0)}, ap \in BOOLEAN, nc \in BOOLEAN}

\* Pages the server answers a search or a 'next' link with.
Pages ==
    {EmptyBody,
     Bundle(<<1, 2>>, TRUE, <<"page2">>),
     Bundle(<<NoResource, 3>>, TRUE, <<"page2">>),
     Bundle(<<1, 2>>, FALSE, <<>>),
     Bundle(<<3>>, TRUE, <<>>)}

\* The searches that walk the pages.
Walks ==
    {search(<<"Patient">>, <<>>, TRUE, mr, ap, nc) :
        mr \in {Absent, Given(0), Given(1), Given(3)}, ap \in BOOLEAN, nc \in BOOLEAN}

ClientInit(configs) ==
    /\ config \in configs
    /\ cache = <<>>
    /\ pc = [p \in Procs |-> "idle"]
    /\ op = [p \in Procs |-> NoOp]
    /\ req = [p \in Procs |-> NoReq]
    /\ currentBundle = [p \in Procs |-> Undefined]
    /\ results = [p \in Procs |-> <<>>]
    /\ reqs = [p \in Procs |-> 0]
    /\ tcalls = [p \in Procs |-> 0]
    /\ outcome = [p \in Procs |-> NoOutcome]
    /\ received = [p \in Procs |-> <<>>]
    /\ pages = [p \in Procs |-> 0]
    /\ wire = [p \in Procs |-> NotSettled]

\* The client as constructed, no exported function being called.
InitWith(configs) ==
    /\ ClientInit(configs)
    /\ client = NewClient(config)
    /\ args = NoArgs
    /\ heap = NoHeap
    /\ ret = NoRet

(***************************************************************************)
(* Spec: one caller issues single-request operations one after the other.  *)
(***************************************************************************)
Init ==
    InitWith([cacheEnable : BOOLEAN, maxFetchAllResults : {Absent},
              fhirVersion : {"R4"}, headers : {NoHeaders}])

Next ==
    \/ \E o \in Operations : Call("a", o)
    \/ \E o \in Operations : Reject("a", o)
    \/ \E d \in Bodies : TransportSuccess("a", d)
    \/ \E e \in Errors : TransportFailure("a", e)
    \/ Return("a")
    \/ Release("a")
    \/ Tick

Spec == Init /\ [][Next]_vars

(***************************************************************************)
(* SpecWalk: one caller issues fetchAll searches one after the other.      *)
(***************************************************************************)
InitWalk ==
    InitWith([cacheEnable : BOOLEAN, maxFetchAllResults : {Absent, Given(2)},
              fhirVersion : {"R4"}, headers : {NoHeaders}])

NextWalk ==
    \/ \E o \in Walks : Call("a", o)
    \/ \E d \in Pages : TransportSuccess("a", d)
    \/ \E e \in Errors : TransportFailure("a", e)
    \/ WalkLimit("a")
    \/ WalkNext("a")
    \/ WalkDone("a")
    \/ Release("a")
    \/ Tick

SpecWalk == InitWalk /\ [][NextWalk]_vars

(***************************************************************************)
(* resolve, toLiteral and resourceId.  The class under src/src does not    *)
(* have them; they are modelled on tests/client.test.ts:958-1245, which    *)
(* call them and fix their results and messages, and on the specification  *)
(* where the tests are silent.  A resource is its number: 1 and 2 are      *)
(* Patients with the ids '1' and '2', 3 is an OperationOutcome, NoId is a  *)
(* Patient without an id.                                                  *)
(***************************************************************************)
NoId == 9
ResourceTypeOf(r) == IF r = 3 THEN "OperationOutcome" ELSE "Patient"

ResolverNames == {"resolve", "toLiteral", "resourceId"}

\* 'Search returned no match'
NoMatch == "Search returned no match"
\* `Search returned multiple matches (${n}), criteria not selective enough`
MultipleMatches == "Search returned multiple matches, criteria not selective enough"
\* 'Server returned bundle entry without resource'
EntryWithoutResource == "Server returned bundle entry without resource"
\* 'Server returned malformed resource without resourceType or id'
MalformedResource == "Server returned malformed resource without resourceType or id"

\* A result that is a string, or a reference as its segments.
ReturnedText(t) ==
    [status |-> "ok", value |-> Undefined, list |-> <<>>, error |-> "",
     detail |-> t]

\* Mutant: any target of two pieces or more counts as a literal reference.
IsLiteralReferenceOfAnyLength(target) == Len(target) >= 2

\* The target has the shape 'Type/id': two segments, no '?'.
IsLiteralReference(target) ==
    /\ Len(target) = 2
    /\ \A i \in 1..Len(target) : target[i] # "?"

\* resolve(target, params, options), and toLiteral and resourceId alike: a
\* read of the literal reference when there are no params, otherwise a
\* search without fetchAll.
resolve(name, target, hasParams, params, asPost, noCache) ==
    IF ~hasParams /\ IsLiteralReference(target)
    THEN [read(target[1], target[2], noCache)
             EXCEPT !.name = name, !.target = target]
    ELSE [search(target, params, FALSE, Absent, asPost, noCache)
             EXCEPT !.name = name, !.hasParams = hasParams]

\* Mutant: the entries of every mode are kept.
KeptOfAnyMode(d) == [i \in 1..Len(d.entry) |-> d.entry[i]]

\* The entries of the page whose search mode is not 'outcome', each as the
\* resource it carries or NoResource.
RECURSIVE KeptFrom(_, _)
KeptFrom(entry, mode) ==
    IF entry = <<>> THEN <<>>
    ELSE (IF Head(mode) # "outcome" THEN <<Head(entry)>> ELSE <<>>)
             \o KeptFrom(Tail(entry), Tail(mode))
Kept(d) == KeptFrom(d.entry, d.mode)

\* What the resolver makes of the page its search returned.
Match(name, d) ==
    LET kept == Kept(d) IN
    IF Len(kept) = 0 THEN Thrown(NoMatch)
    ELSE IF Len(kept) > 1
         THEN ThrownWith(MultipleMatches, <<ToString(Len(kept))>>)
    ELSE IF kept[1] = NoResource THEN Thrown(EntryWithoutResource)
    ELSE IF kept[1] = NoId THEN Thrown(MalformedResource)
    ELSE IF name = "resolve" THEN ReturnedList(<<kept[1]>>)
    ELSE IF name = "toLiteral"
         THEN ReturnedText(<<ResourceTypeOf(kept[1]), ToString(kept[1])>>)
    ELSE ReturnedText(<<ToString(kept[1])>>)

\* The continuation of resolve, toLiteral or resourceId when its read or
\* its search has returned.
Resolve(p) ==
    /\ pc[p] = "returned"
    /\ op[p].name \in ResolverNames
    /\ pc' = [pc EXCEPT ![p] = "done"]
    /\ outcome' =
           [outcome EXCEPT
               ![p] = IF ~op[p].cfg.hasParams /\ op[p].cfg.method = "GET"
                      THEN Returned(currentBundle[p])
                      ELSE Match(op[p].name, currentBundle[p])]
    /\ UNCHANGED <<util, client, config, cache, op, req, currentBundle, results, reqs,
                   tcalls, history>>

(***************************************************************************)
(* mergeSearchParams called on its own.                                    *)
(***************************************************************************)
\* The call returns.
Merge ==
    /\ ret.status = "none"
    /\ LET st == mergeSearchParams(args.query, args.hasParams, heap)
       IN /\ ret' = [NoRet EXCEPT !.fn = "mergeSearchParams",
                                    !.status = "ok", !.value = st.merged]
          /\ heap' = [params |-> st.params, arrays |-> st.arrays]
    /\ UNCHANGED <<args, client, config, cache, pc, op, req, currentBundle, results,
                   reqs, tcalls, outcome, history>>

(***************************************************************************)
(* SpecMerge: mergeSearchParams is called once, on any of the inputs.      *)
(***************************************************************************)
\* Names and values of search parameters.
Keys == {<<"name">>, <<"constructor">>}
Values == {<<"x">>, <<"y">>}

\* name=value
Pair(k, v) == k \o <<"=">> \o v

\* The query strings: up to two well-formed pairs, and some odd ones.
Queries ==
    {<<>>}
        \cup {Pair(k, v) : k \in Keys, v \in Values}
        \cup {Pair(k1, v1) \o <<"&">> \o Pair(k2, v2) :
                  k1 \in Keys, v1 \in Values, k2 \in Keys, v2 \in Values}
        \cup {<<"name">>, <<"name", "=">>, <<"name", "=", "x", "=", "y">>,
              <<"&", "name", "=", "x", "&", "&", "name", "=", "x", "&">>}

\* Values of explicit parameters: a scalar, or an array literal of up to two.
Literals ==
    {[isArray |-> FALSE, items |-> <<v>>] : v \in Values}
        \cup {[isArray |-> TRUE, items |-> i] :
                  i \in {<<>>, <<<<"y">>>>, <<<<"x">>, <<"y">>>>}}

\* Explicit maps, as written by the caller: distinct keys in any order.
Maps ==
    {<<>>}
        \cup {<<[key |-> k, value |-> l]>> : k \in Keys, l \in Literals}
        \cup {<<[key |-> k[1], value |-> l1], [key |-> k[2], value |-> l2]>> :
                  k \in {kk \in Keys \X Keys : kk[1] # kk[2]},
                  l1 \in Literals, l2 \in Literals}

InitMerge ==
    /\ ClientInit([cacheEnable : {FALSE}, maxFetchAllResults : {Absent},
                   fhirVersion : {"R4"}, headers : {NoHeaders}])
    /\ client = NewClient(config)
    /\ \E q \in Queries, hp \in BOOLEAN, m \in Maps :
           /\ ~hp => m = <<>>
           /\ args = [NoArgs EXCEPT !.query = q, !.hasParams = hp]
           /\ heap = Allocate(m, NoHeap)
    /\ ret = NoRet

NextMerge == Merge

SpecMerge == InitMerge /\ [][NextMerge]_vars

(***************************************************************************)
(* SpecSend: one caller issues operations of every method on a client of   *)
(* any supported version; no time passes.                                  *)
(***************************************************************************)
Sends ==
    {read("Patient", "1", FALSE), getCapabilities, create("Patient"),
     update("Patient", "1", Resource("Patient", "1", "")),
     delete("Patient", "1"),
     processTransaction(Resource("Bundle", "", "transaction")),
     processBatch(Resource("Bundle", "", "batch"))}
        \cup {search(<<"Patient">>, <<>>, FALSE, Absent, ap, FALSE) :
                  ap \in BOOLEAN}

InitSend ==
    InitWith([cacheEnable : BOOLEAN, maxFetchAllResults : {Absent},
              fhirVersion : FhirVersion, headers : {NoHeaders}])

NextSend ==
    \/ \E o \in Sends : Call("a", o)
    \/ \E d \in Bodies : TransportSuccess("a", d)
    \/ \E e \in Errors : TransportFailure("a", e)
    \/ Return("a")
    \/ Release("a")

SpecSend == InitSend /\ [][NextSend]_vars

(***************************************************************************)
(* SpecSearch: one caller searches, by GET and by POST, with targets with  *)
(* and without a query string and with scalar and array parameters, on a   *)
(* client without a cache.                                                 *)
(***************************************************************************)
SearchQueries ==
    {<<>>, Pair(<<"name">>, <<"x">>),
     Pair(<<"name">>, <<"x">>) \o <<"&">> \o Pair(<<"code">>, <<"y">>),
     Pair(<<"name">>, <<"x">>) \o <<"&">> \o Pair(<<"name">>, <<"y">>),
     Pair(<<"name">>, <<"x", "?", "y">>),
     Pair(<<"constructor">>, <<"x">>)}

SearchTargets ==
    {<<"Patient">>, <<"Patient", "_search">>, <<"Patient", "_search", "extra">>}
        \cup {<<"Patient", "?">> \o q : q \in SearchQueries}
        \cup {<<"Patient", "_search", "?">> \o Pair(<<"name">>, <<"x">>)}

SearchMaps ==
    {<<>>,
     <<[key |-> <<"name">>, value |-> [isArray |-> FALSE, items |-> <<<<"y">>>>]]>>,
     <<[key |-> <<"name">>,
        value |-> [isArray |-> TRUE, items |-> <<<<"x">>, <<"y">>>>]]>>,
     <<[key |-> <<"code">>, value |-> [isArray |-> TRUE, items |-> <<<<"y">>>>]]>>,
     <<[key |-> <<"name">>, value |-> [isArray |-> FALSE, items |-> <<<<"x">>>>]],
       [key |-> <<"code">>, value |-> [isArray |-> FALSE, items |-> <<<<"y">>>>]]>>,
     <<[key |-> <<"code">>, value |-> [isArray |-> FALSE, items |-> <<<<"y">>>>]],
       [key |-> <<"name">>, value |-> [isArray |-> FALSE, items |-> <<<<"x">>>>]]>>}

Searches ==
    {search(t, m, FALSE, Absent, ap, FALSE) :
         t \in SearchTargets, m \in SearchMaps, ap \in BOOLEAN}

InitSearch ==
    InitWith([cacheEnable : {FALSE}, maxFetchAllResults : {Absent},
              fhirVersion : {"R4"}, headers : {NoHeaders}])

NextSearch ==
    \/ \E o \in Searches : Call("a", o)
    \/ \E d \in Bodies : TransportSuccess("a", d)
    \/ \E e \in Errors : TransportFailure("a", e)
    \/ Return("a")
    \/ Release("a")

SpecSearch == InitSearch /\ [][NextSearch]_vars

(***************************************************************************)
(* SpecKeys: one caller reads two resources and searches with the same     *)
(* parameters written in either order, with fewer parameters, and with one *)
(* of them in the query string of the target, on a client with a cache,    *)
(* while time passes.                                                      *)
(***************************************************************************)
KeyedMaps ==
    {<<[key |-> <<"name">>, value |-> [isArray |-> FALSE, items |-> <<<<"x">>>>]]>>,
     <<[key |-> <<"name">>, value |-> [isArray |-> FALSE, items |-> <<<<"x">>>>]],
       [key |-> <<"code">>, value |-> [isArray |-> FALSE, items |-> <<<<"y">>>>]]>>,
     <<[key |-> <<"code">>, value |-> [isArray |-> FALSE, items |-> <<<<"y">>>>]],
       [key |-> <<"name">>, value |-> [isArray |-> FALSE, items |-> <<<<"x">>>>]]>>}

KeyedOperations ==
    {read("Patient", id, FALSE) : id \in {"1", "2"}}
        \cup {search(<<"Patient">>, m, FALSE, Absent, FALSE, FALSE) :
                  m \in KeyedMaps}
        \cup {search(<<"Patient", "?">> \o Pair(<<"name">>, <<"x">>),
                     <<[key |-> <<"code">>,
                        value |-> [isArray |-> FALSE, items |-> <<<<"y">>>>]]>>,
                     FALSE, Absent, FALSE, FALSE)}

\* What the server answers with: an empty body, or a bundle.
KeyedBodies == {EmptyBody, Bundle(<<1>>, FALSE, <<>>)}

InitKeys ==
    InitWith([cacheEnable : {TRUE}, maxFetchAllResults : {Absent},
              fhirVersion : {"R4"}, headers : {NoHeaders}])

NextKeys ==
    \/ \E o \in KeyedOperations : Call("a", o)
    \/ \E d \in KeyedBodies : TransportSuccess("a", d)
    \/ \E e \in Errors : TransportFailure("a", e)
    \/ Return("a")
    \/ Release("a")
    \/ Tick

SpecKeys == InitKeys /\ [][NextKeys]_vars

(***************************************************************************)
(* SpecFollow: one caller issues fetchAll searches that have parameters,   *)
(* by GET and by POST, under a client bound of two.                        *)
(***************************************************************************)
FollowedWalks ==
    {search(<<"Patient">>,
            <<[key |-> <<"name">>,
               value |-> [isArray |-> FALSE, items |-> <<<<"x">>>>]]>>,
            TRUE, Absent, ap, nc) : ap \in BOOLEAN, nc \in BOOLEAN}

InitFollow ==
    InitWith([cacheEnable : BOOLEAN, maxFetchAllResults : {Given(2)},
              fhirVersion : {"R4"}, headers : {NoHeaders}])

NextFollow ==
    \/ \E o \in FollowedWalks : Call("a", o)
    \/ \E d \in Pages : TransportSuccess("a", d)
    \/ \E e \in Errors : TransportFailure("a", e)
    \/ WalkLimit("a")
    \/ WalkNext("a")
    \/ WalkDone("a")
    \/ Release("a")

SpecFollow == InitFollow /\ [][NextFollow]_vars

(***************************************************************************)
(* SpecLive: one caller issues fetchAll searches against a server whose    *)
(* answer to a 'next' url is fixed: 'finite' and 'last' end a chain,       *)
(* 'loop' is a page with a resource whose 'next' link is itself, 'empty'   *)
(* a page without resources whose 'next' link is itself.  Every transport  *)
(* call settles, and a continuation that can run does run.                 *)
(***************************************************************************)
FirstPages ==
    {Bundle(<<1>>, FALSE, <<>>),
     Bundle(<<1>>, TRUE, <<"finite">>),
     Bundle(<<1>>, TRUE, <<"loop">>),
     Bundle(<<1>>, TRUE, <<"empty">>)}

Served(url) ==
    IF url = <<"finite">> THEN {Bundle(<<2>>, TRUE, <<"last">>)}
    ELSE IF url = <<"last">> THEN {Bundle(<<NoResource>>, FALSE, <<>>)}
    ELSE IF url = <<"loop">> THEN {Bundle(<<3>>, TRUE, <<"loop">>)}
    ELSE IF url = <<"empty">> THEN {Bundle(<<NoResource>>, TRUE, <<"empty">>)}
    ELSE FirstPages

\* The transport call of p resolves with what the server has for its url.
Answer(p) == \E d \in Served(req[p].cfg.url) : TransportSuccess(p, d)

LiveWalks ==
    {search(<<"Patient">>, <<>>, TRUE, mr, ap, FALSE) :
        mr \in {Given(1), Given(2)}, ap \in BOOLEAN}

InitLive ==
    InitWith([cacheEnable : BOOLEAN, maxFetchAllResults : {Absent},
              fhirVersion : {"R4"}, headers : {NoHeaders}])

NextLive ==
    \/ \E o \in LiveWalks : Call("a", o)
    \/ Answer("a")
    \/ \E e \in Errors : TransportFailure("a", e)
    \/ WalkLimit("a")
    \/ WalkNext("a")
    \/ WalkDone("a")
    \/ Release("a")

SpecLive ==
    /\ InitLive /\ [][NextLive]_vars
    /\ WF_vars(Answer("a") \/ \E e \in Errors : TransportFailure("a", e))
    /\ WF_vars(WalkLimit("a") \/ WalkNext("a") \/ WalkDone("a"))

(***************************************************************************)
(* SpecRace: two callers read the same two resources on one client with a  *)
(* cache, each free to start while the other's transport call is pending,  *)
(* and the server answers each call with either of two bundles.            *)
(***************************************************************************)
InitRace ==
    InitWith([cacheEnable : {TRUE}, maxFetchAllResults : {Absent},
              fhirVersion : {"R4"}, headers : {NoHeaders}])

NextRace ==
    \E p \in Procs :
        \/ \E id \in {"1", "2"} : Call(p, read("Patient", id, FALSE))
        \/ \E d \in {Bundle(<<1>>, FALSE, <<>>), Bundle(<<2>>, FALSE, <<>>)} :
               TransportSuccess(p, d)
        \/ \E e \in Errors : TransportFailure(p, e)
        \/ Return(p)
        \/ Release(p)

SpecRace == InitRace /\ [][NextRace]_vars

(***************************************************************************)
(* SpecResolve: one caller resolves literal references and searches, the   *)
(* server answering with any of a few pages.                               *)
(***************************************************************************)
ResolveTargets ==
    {<<"Patient">>, <<"Patient", "1">>, <<"Patient", "1", "_history">>,
     <<"Patient", "?">> \o Pair(<<"name">>, <<"x">>),
     <<"Patient", "1", "?">> \o Pair(<<"name">>, <<"x">>)}

ResolveMaps ==
    {<<>>,
     <<[key |-> <<"name">>, value |-> [isArray |-> FALSE, items |-> <<<<"x">>>>]]>>}

\* The calls: params only where hasParams, and a literal reference without
\* params (which the tests pass to resolve alone) for resolve only.
Resolutions ==
    {resolve(c[1], c[2], c[3], c[4], c[5], FALSE) :
         c \in {cc \in ResolverNames \X ResolveTargets \X BOOLEAN
                         \X ResolveMaps \X BOOLEAN :
                    /\ cc[4] # <<>> => cc[3]
                    /\ (~cc[3] /\ IsLiteralReference(cc[2])) =>
                           cc[1] = "resolve"}}

ResolvePages ==
    {SearchSet(<<>>, <<>>, FALSE),
     SearchSet(<<1>>, <<"">>, FALSE),
     SearchSet(<<2>>, <<"match">>, TRUE),
     SearchSet(<<1, 2>>, <<"match", "">>, FALSE),
     SearchSet(<<1, 3>>, <<"match", "outcome">>, FALSE),
     SearchSet(<<3>>, <<"outcome">>, FALSE),
     SearchSet(<<NoResource>>, <<"match">>, FALSE),
     SearchSet(<<NoId>>, <<"">>, FALSE)}

InitResolve ==
    InitWith([cacheEnable : {FALSE}, maxFetchAllResults : {Absent},
              fhirVersion : {"R4"}, headers : {NoHeaders}])

NextResolve ==
    \/ \E o \in Resolutions : Call("a", o)
    \/ \E d \in ResolvePages : TransportSuccess("a", d)
    \/ \E e \in Errors : TransportFailure("a", e)
    \/ Resolve("a")
    \/ Release("a")

SpecResolve == InitResolve /\ [][NextResolve]_vars

(***************************************************************************)
(* SpecNew: on a configuration as the caller wrote it, either the          *)
(* constructor runs or normalizeFhirVersion is called with the version     *)
(* token of the configuration.                                             *)
(***************************************************************************)
\* The tokens a configuration may carry at run time.
Tokens ==
    FhirVersion
        \cup {"2.0", "r4", "R4 ", "", "4", "4.0.0", "R6", "STU3", "3.0.2",
              "4.3.0", "4.3", "R4B", "R2"}

\* config.headers
HeaderSets ==
    {NoHeaders,
     <<[key |-> "X-Custom-Header", value |-> <<"custom-value">>]>>,
     <<[key |-> "Accept", value |-> <<"application/json">>]>>,
     <<[key |-> "X-Custom-Header", value |-> <<"custom-value">>],
       [key |-> "Accept", value |-> <<"application/json">>]>>}

\* new FhirClient(config)
New ==
    /\ ~client.constructed
    /\ ret.status = "none"
    /\ LET v == normalizeFhirVersion(config.fhirVersion) IN
       IF v.status = "ok"
       THEN /\ client' = NewClient(config)
            /\ ret' = [NoRet EXCEPT !.fn = "new FhirClient", !.status = "ok"]
       ELSE /\ client' = client
            /\ ret' = [v EXCEPT !.fn = "new FhirClient"]
    /\ cache' = <<>>
    /\ UNCHANGED <<args, heap, config, pc, op, req, currentBundle, results,
                   reqs, tcalls, outcome, history>>

\* normalizeFhirVersion(version)
Normalize ==
    /\ ret.status = "none"
    /\ ret' = [normalizeFhirVersion(args.version[1])
                  EXCEPT !.fn = "normalizeFhirVersion"]
    /\ UNCHANGED <<args, heap, client, config, cache, pc, op, req,
                   currentBundle, results, reqs, tcalls, outcome, history>>

InitNew ==
    /\ ClientInit([cacheEnable : BOOLEAN, maxFetchAllResults : {Absent},
                   fhirVersion : Tokens, headers : HeaderSets])
    /\ client = NoClient
    /\ args = [NoArgs EXCEPT !.version = <<config.fhirVersion>>]
    /\ heap = NoHeap
    /\ ret = NoRet

NextNew ==
    \/ New
    \/ Normalize

SpecNew == InitNew /\ [][NextNew]_vars

(***************************************************************************)
(* SpecLife: a client is constructed from a configuration with any version *)
(* token, with or without an Accept header of its own, and, once           *)
(* constructed, serves reads, creates and updates of one caller.  The      *)
(* configuration is the constructor's argument throughout.                 *)
(***************************************************************************)
LifeSends ==
    {read("Patient", "1", FALSE), create("Patient"),
     update("Patient", "1", Resource("Patient", "1", ""))}

InitLife ==
    /\ ClientInit([cacheEnable : BOOLEAN, maxFetchAllResults : {Absent},
                   fhirVersion : Tokens,
                   headers : {NoHeaders,
                              <<[key |-> "Accept",
                                 value |-> <<"application/json">>]>>}])
    /\ client = NoClient
    /\ args = NoArgs
    /\ heap = NoHeap
    /\ ret = NoRet

NextLife ==
    \/ New
    \/ client.constructed /\ \E o \in LifeSends : Call("a", o)
    \/ \E d \in KeyedBodies : TransportSuccess("a", d)
    \/ \E e \in Errors : TransportFailure("a", e)
    \/ Return("a")
    \/ Release("a")

SpecLife == InitLife /\ [][NextLife]_vars

(***************************************************************************)
(* Steps, as they show in the state.                                       *)
(***************************************************************************)
\* request() is entered on behalf of p; req'[p] is the request.
RequestBegins(p) == reqs'[p] = reqs[p] + 1
\* The transport is called on behalf of p.
TransportCalled(p) == tcalls'[p] = tcalls[p] + 1
\* request() returns to p from the cache, without a transport call.
ServedFromCache(p) ==
    RequestBegins(p) /\ pc'[p] = "returned" /\ tcalls'[p] = tcalls[p]
\* p's transport call resolves / rejects.
TransportResolves(p) == pc[p] = "awaiting" /\ wire'[p].status = "resolved"
TransportRejects(p) == pc[p] = "awaiting" /\ wire'[p].status = "rejected"

\* The entry the cache holds for key k, while it has not expired.
HasLive(c, k) == HasKey(c, k) /\ ~IsStale(c[IndexOf(c, k)])
\* The key-value pairs of the cache, expired or not.
AllEntries(c) == {<<c[i].key, c[i].value>> : i \in 1..Len(c)}
\* The keys and values of the cache in recency order, ages left out.
KeyValues(c) == [i \in 1..Len(c) |-> <<c[i].key, c[i].value>>]
\* p takes a step.
Moves(p) == pc'[p] # pc[p] \/ reqs'[p] # reqs[p]
\* Page b has no link with relation 'next', or that link has no url.
LastPage(b) == ~b.hasNext \/ b.nextUrl = <<>>
\* Key k was stored by the latest cache operation and no time has passed.
JustStored(c, k) == Len(c) > 0 /\ c[Len(c)].key = k /\ c[Len(c)].age = 0
\* The part of a search target before its first '?': the prefix without a
\* '?' that is the whole target or is followed by one.
PathOf(t) ==
    CHOOSE a \in {SubSeq(t, 1, n) : n \in 0..Len(t)} :
        /\ \A i \in 1..Len(a) : a[i] # "?"
        /\ (Len(a) = Len(t) \/ t[Len(a) + 1] = "?")
\* The part after the first '?'.
QueryOf(t) == SubSeq(t, Len(PathOf(t)) + 2, Len(t))
\* p's search is waiting for the transport, sent by POST / by GET.
PostSearchSent(p) ==
    pc[p] = "awaiting" /\ op[p].name = "search" /\ req[p].cfg.method = "POST"
GetSearchSent(p) ==
    pc[p] = "awaiting" /\ op[p].name = "search" /\ req[p].cfg.method = "GET"
\* Cache key k is that of a GET for url u with the parameters of ps (none
\* when ps is empty) in some order.
KeyFor(k, u, ps) ==
    /\ Len(k) = (IF ps = <<>> THEN 2 ELSE 3)
    /\ k[1] = <<"method", "GET">>
    /\ k[2] = <<"url", u>>
    /\ ps # <<>> =>
           /\ k[3][1] = "params"
           /\ {k[3][2][j] : j \in 1..Len(k[3][2])} = {ps[j] : j \in 1..Len(ps)}
\* Cache key k names the method, the url and the parameters of request c,
\* the parameters as the request lists them.
KeyOfRequest(k, c) ==
    /\ Len(k) = (IF c.hasParams THEN 3 ELSE 2)
    /\ k[1] = <<"method", c.method>>
    /\ k[2] = <<"url", c.url>>
    /\ c.hasParams => k[3] = <<"params", c.params>>
\* The keys of the cache, the least recently accessed first.
KeysOf(c) == [i \in 1..Len(c) |-> c[i].key]
\* The keys p accesses in the step: the one its request looks up, the one
\* its response is stored under.
Accessed(p) ==
    (IF RequestBegins(p) /\ CacheEligible(req'[p])
     THEN {CacheKey(req'[p].cfg)} ELSE {})
        \cup (IF TransportResolves(p) /\ CacheEligible(req[p])
              THEN {CacheKey(req[p].cfg)} ELSE {})
\* p's resolve, toLiteral or resourceId has ended after its one request was
\* answered; by a search, when that request was not a read.
Resolved1(p) ==
    /\ pc[p] = "done" /\ op[p].name \in ResolverNames
    /\ wire[p].status = "resolved"
BySearch(p) == op[p].cfg.method = "POST" \/ op[p].cfg.hasParams
\* The positions of the entries of page d whose mode is not 'outcome'; with
\* carrying, only those that carry a resource.
KeptPositions(d, carrying) ==
    {i \in 1..Len(d.entry) :
        /\ d.mode[i] # "outcome"
        /\ carrying => d.entry[i] # NoResource}
\* The result of p is resource r, in the form the operation gives it.
Gives(p, r) ==
    /\ outcome[p].status = "ok"
    /\ op[p].name = "resolve" => outcome[p].list = <<r>>
    /\ op[p].name = "toLiteral" =>
           outcome[p].detail = <<ResourceTypeOf(r), ToString(r)>>
    /\ op[p].name = "resourceId" => outcome[p].detail = <<ToString(r)>>
\* p failed with message e.
Fails(p, e) == outcome[p].status = "error" /\ outcome[p].error = e
\* The target of p's search has no query string.
PlainTarget(p) == PathOf(op[p].target) = op[p].target
\* The key-value pairs of a parameter object, one per value, in order.
RECURSIVE PairsOf(_)
PairsOf(m) ==
    IF m = <<>> THEN <<>>
    ELSE [j \in 1..Len(Head(m).items) |->
             [key |-> Head(m).key, value |-> Head(m).items[j]]]
         \o PairsOf(Tail(m))

(***************************************************************************)
(* C1.  With the cache enabled, a GET without noCache that immediately     *)
(* follows the store of a response under the same key is answered with     *)
(* exactly the stored response, whatever it is, and calls no transport.    *)
(* The code tests the looked-up value for truthiness, so a stored empty    *)
(* body is taken for a miss.                                               *)
(***************************************************************************)
C1_StoredResponseIsServed ==
    [][\A p \in Procs :
         (/\ RequestBegins(p)
          /\ CacheEligible(req'[p])
          /\ JustStored(cache, CacheKey(req'[p].cfg)))
         => /\ ServedFromCache(p)
            /\ currentBundle'[p] = cache[Len(cache)].value]_vars

(***************************************************************************)
(* C2.  A request made with noCache never reads and never writes the       *)
(* cache: entering it calls the transport and leaves the cache as it is,   *)
(* its settling leaves the cache as it is, and what the operation returns  *)
(* is the body the transport delivered.                                    *)
(***************************************************************************)
C2_NoCacheBypasses ==
    /\ [][\A p \in Procs :
            /\ (RequestBegins(p) /\ req'[p].noCache)
                   => (cache' = cache /\ TransportCalled(p)
                       /\ pc'[p] = "awaiting")
            /\ (pc[p] = "awaiting" /\ req[p].noCache /\ pc'[p] # pc[p])
                   => cache' = cache]_vars
    /\ [](\A p \in Procs :
            (pc[p] = "done" /\ op[p].noCache /\ ~op[p].fetchAll
                /\ outcome[p].status = "ok")
               => (tcalls[p] = 1 /\ wire[p] = Resolved(outcome[p].value)))

\* A noCache read has returned the transport's body while the cache holds a
\* different live response under the same key.
C2_Witness ==
    \E p \in Procs :
        /\ pc[p] = "done" /\ op[p].noCache /\ op[p].name = "read"
        /\ outcome[p].status = "ok"
        /\ HasLive(cache, CacheKey(op[p].cfg))
        /\ Truthy(LruGet(cache, CacheKey(op[p].cfg)))
        /\ LruGet(cache, CacheKey(op[p].cfg)) # outcome[p].value

(***************************************************************************)
(* C3.  A request whose method is not GET bypasses the cache on both       *)
(* paths: entering it calls the transport and leaves the cache as it is,   *)
(* and its settling leaves the cache as it is, so what a read stored       *)
(* before an update or delete is what the cache holds afterwards.          *)
(***************************************************************************)
C3_NonGetBypasses ==
    [][\A p \in Procs :
         /\ (RequestBegins(p) /\ ToLowerCase(req'[p].cfg.method) # "get")
                => (cache' = cache /\ TransportCalled(p)
                    /\ pc'[p] = "awaiting")
         /\ (pc[p] = "awaiting" /\ ToLowerCase(req[p].cfg.method) # "get"
                /\ pc'[p] # pc[p])
                => cache' = cache]_vars

\* An update or delete of Patient/1 has succeeded while the cache still holds
\* the response of an earlier read of Patient/1.
C3_Witness ==
    \E p \in Procs :
        /\ pc[p] = "done" /\ op[p].name \in {"update", "delete"}
        /\ outcome[p].status = "ok"
        /\ HasLive(cache, CacheKey(Request("GET", op[p].cfg.url)))
        /\ Truthy(LruGet(cache, CacheKey(Request("GET", op[p].cfg.url))))

(***************************************************************************)
(* C4.  As claimed: every invocation of request() calls the transport      *)
(* exactly once, and the cache changes only when a transport call          *)
(* resolves.  A cache hit returns without any transport call.              *)
(***************************************************************************)
C4_ExactlyOneTransportCall ==
    [][/\ \A p \in Procs : RequestBegins(p) => TransportCalled(p)
       /\ KeyValues(cache') # KeyValues(cache)
              => \E p \in Procs : TransportResolves(p)]_vars

(***************************************************************************)
(* C4, amended.  Every invocation of request() calls the transport at most *)
(* once: not at all when a cache-eligible request finds a truthy live      *)
(* value, exactly once otherwise, and the transport is called nowhere      *)
(* else.  A key-value pair enters the cache only in the step in which a    *)
(* transport call of a cache-eligible request resolves, and it is that     *)
(* request's key with the resolved body.                                   *)
(***************************************************************************)
C4_AtMostOneTransportCall ==
    [][/\ \A p \in Procs :
            /\ RequestBegins(p) =>
                   IF /\ CacheEligible(req'[p])
                      /\ Truthy(LruGet(cache, CacheKey(req'[p].cfg)))
                   THEN ServedFromCache(p)
                   ELSE TransportCalled(p) /\ pc'[p] = "awaiting"
            /\ tcalls'[p] > tcalls[p] => RequestBegins(p)
       /\ AllEntries(cache') \subseteq AllEntries(cache)
          \/ \E p \in Procs :
                /\ TransportResolves(p)
                /\ CacheEligible(req[p])
                /\ AllEntries(cache') \ AllEntries(cache)
                       = {<<CacheKey(req[p].cfg), wire'[p].body>>}]_vars

\* An invocation of request() has returned from the cache without any
\* transport call.
C4_Witness ==
    \E p \in Procs :
        pc[p] = "returned" /\ reqs[p] = 1 /\ tcalls[p] = 0
            /\ Truthy(currentBundle[p])

(***************************************************************************)
(* C5.  When the transport call of a request rejects, the operation ends   *)
(* with exactly that rejection, the transport is not called again for it,  *)
(* and the cache is left as it was: the rejection stores nothing, and the  *)
(* lookup before the call added nothing.                                   *)
(***************************************************************************)
C5_FailurePropagates ==
    [][\A p \in Procs :
         /\ TransportRejects(p)
                => /\ cache' = cache
                   /\ tcalls' = tcalls
                   /\ pc'[p] = "done"
                   /\ outcome'[p] = Thrown(wire'[p].error)
         /\ (pc[p] = "done" /\ wire[p].status = "rejected")
                => (tcalls'[p] <= tcalls[p] /\ pc'[p] \in {"done", "idle"})
         /\ (RequestBegins(p) /\ pc'[p] = "awaiting")
                => AllEntries(cache') \subseteq AllEntries(cache)]_vars

\* A cache-eligible read has failed with the transport's error after exactly
\* one transport call, and the cache holds nothing under its key.
C5_Witness ==
    \E p \in Procs :
        /\ pc[p] = "done" /\ op[p].name = "read" /\ CacheEligible(req[p])
        /\ wire[p].status = "rejected"
        /\ outcome[p] = Thrown("Network error")
        /\ tcalls[p] = 1
        /\ cache # <<>>
        /\ ~HasKey(cache, CacheKey(op[p].cfg))

(***************************************************************************)
(* C6.  A client constructed without cache.enable has no cache: nothing is *)
(* ever stored, and every invocation of request() calls the transport.     *)
(***************************************************************************)
C6_DisabledCacheIsPassThrough ==
    /\ [](~config.cacheEnable => cache = <<>>)
    /\ [][\A p \in Procs :
            (~config.cacheEnable /\ RequestBegins(p))
               => (TransportCalled(p) /\ pc'[p] = "awaiting")]_vars

\* With the cache disabled a read has returned the body of its own transport
\* call.
C6_Witness ==
    \E p \in Procs :
        /\ ~config.cacheEnable
        /\ pc[p] = "done" /\ op[p].name = "read" /\ ~op[p].noCache
        /\ outcome[p].status = "ok" /\ Truthy(outcome[p].value)
        /\ tcalls[p] = 1

(***************************************************************************)
(* C7.  A fetchAll search that returns has walked a chain of pages ending  *)
(* in a page without a followable 'next' link, and returns the resources   *)
(* of all pages received, in page order and within a page in entry order,  *)
(* each once, with one request() per page; it fails on the bound only if   *)
(* the resources received exceed the effective bound.                      *)
(***************************************************************************)
C7_WalkReturnsAllPagesInOrder ==
    \A p \in Procs :
        (pc[p] = "done" /\ op[p].fetchAll) =>
            /\ outcome[p].status = "ok" =>
                   /\ outcome[p].list = received[p]
                   /\ reqs[p] = pages[p]
                   /\ LastPage(currentBundle[p])
                   /\ Len(outcome[p].list) <= EffectiveBound(op[p])
            /\ outcome[p].error = LimitExceeded =>
                   Len(received[p]) > EffectiveBound(op[p])

\* A walk over three pages fetched from the server has returned their four
\* resources in order.
C7_Witness ==
    \E p \in Procs :
        /\ pc[p] = "done" /\ op[p].fetchAll
        /\ reqs[p] = 3 /\ tcalls[p] = 3
        /\ outcome[p] = ReturnedList(<<1, 2, 3, 3>>)

(***************************************************************************)
(* C8.  The bound is checked right after every push, the first page's      *)
(* included: once the resources received exceed the effective bound the    *)
(* walk's next step fails with the limit error without a further request,  *)
(* whether or not the current page has a 'next' link, and no page is ever  *)
(* awaited while the bound is exceeded.                                    *)
(***************************************************************************)
C8_BoundCheckedAfterEveryPush ==
    /\ [][\A p \in Procs :
            (/\ pc[p] = "returned" /\ op[p].fetchAll
             /\ Len(received[p]) > EffectiveBound(op[p])
             /\ Moves(p))
            => /\ pc'[p] = "done"
               /\ outcome'[p].error = LimitExceeded
               /\ reqs' = reqs /\ tcalls' = tcalls]_vars
    /\ [](\A p \in Procs :
            (pc[p] = "awaiting" /\ op[p].fetchAll)
               => Len(received[p]) <= EffectiveBound(op[p]))

\* Pages of two resources each under a bound of three: the walk has failed
\* after the second page, with two requests made, although that page has a
\* 'next' link.
C8_Witness ==
    \E p \in Procs :
        /\ pc[p] = "done" /\ op[p].fetchAll
        /\ outcome[p].error = LimitExceeded
        /\ EffectiveBound(op[p]) = 3
        /\ reqs[p] = 2 /\ Len(received[p]) = 4
        /\ HasNextUrl(currentBundle[p])

C10_LastPageEndsTheWalk ==
    [][\A p \in Procs :
         (/\ pc[p] = "returned" /\ op[p].fetchAll
          /\ LastPage(currentBundle[p])
          /\ Moves(p))
         => /\ pc'[p] = "done"
            /\ outcome'[p] = ReturnedList(received[p])
            /\ reqs' = reqs /\ tcalls' = tcalls]_vars

(***************************************************************************)
(* C10, amended.  When the current page has no 'next' link, or one without *)
(* a url, and the accumulated count does not exceed the effective bound,   *)
(* the walk can take its next step and that step returns the accumulated   *)
(* sequence without error and without a further request.                   *)
(***************************************************************************)
C10_LastPageWithinBoundEndsTheWalk ==
    /\ [][\A p \in Procs :
            (/\ pc[p] = "returned" /\ op[p].fetchAll
             /\ LastPage(currentBundle[p])
             /\ Len(received[p]) <= EffectiveBound(op[p])
             /\ Moves(p))
            => /\ pc'[p] = "done"
               /\ outcome'[p] = ReturnedList(received[p])
               /\ reqs' = reqs /\ tcalls' = tcalls]_vars
    /\ [](\A p \in Procs :
            (/\ pc[p] = "returned" /\ op[p].fetchAll
             /\ LastPage(currentBundle[p])
             /\ Len(received[p]) <= EffectiveBound(op[p]))
            => ENABLED WalkDone(p))

\* A walk has returned its resources at a page whose 'next' link has an
\* empty url.
C10_Witness ==
    \E p \in Procs :
        /\ pc[p] = "done" /\ op[p].fetchAll
        /\ currentBundle[p].hasNext /\ currentBundle[p].nextUrl = <<>>
        /\ outcome[p].status = "ok" /\ outcome[p].list # <<>>
        /\ reqs[p] = 2

(***************************************************************************)
(* C11.  The bound a fetchAll walk is held to is the per-search maxResults *)
(* when it is given (smaller or larger than the client-level value, zero   *)
(* included), otherwise the client-level maxFetchAllResults when it is     *)
(* configured, otherwise 10000: a walk that returns has received no more   *)
(* resources than that, and one that fails on the limit has received more  *)
(* and names that bound in its error.                                      *)
(***************************************************************************)
C11_PerSearchBoundTakesPrecedence ==
    \A p \in Procs :
        (pc[p] = "done" /\ op[p].fetchAll) =>
            LET bound == IF op[p].maxResults # <<>> THEN op[p].maxResults[1]
                         ELSE IF config.maxFetchAllResults # <<>>
                              THEN config.maxFetchAllResults[1]
                              ELSE DefaultMaxResults
            IN /\ outcome[p].status = "ok" => Len(received[p]) <= bound
               /\ outcome[p].error = LimitExceeded =>
                      /\ Len(received[p]) > bound
                      /\ outcome[p].detail = <<ToString(bound)>>

\* Under a client-level bound of two a search with maxResults three has
\* returned three resources.
C11_Witness ==
    \E p \in Procs :
        /\ pc[p] = "done" /\ op[p].fetchAll
        /\ config.maxFetchAllResults = Given(2)
        /\ op[p].maxResults = Given(3)
        /\ outcome[p] = ReturnedList(<<1, 2, 3>>)

(***************************************************************************)
(* C12.  A search without fetchAll makes exactly one request and returns   *)
(* the page that request delivered, as it is: a 'next' link on the page is *)
(* not followed and no bound is applied, whatever maxResults says.  It     *)
(* fails only with the failure of its one transport call.                  *)
(***************************************************************************)
C12_SinglePageSearch ==
    \A p \in Procs :
        (op[p].name = "search" /\ ~op[p].fetchAll) =>
            /\ reqs[p] <= 1
            /\ pc[p] = "done" =>
                   \/ /\ outcome[p].status = "ok"
                      /\ reqs[p] = 1 /\ pages[p] = 1
                      /\ outcome[p].value = currentBundle[p]
                      /\ PageResources(outcome[p].value) = received[p]
                      /\ tcalls[p] = 1 => outcome[p].value = wire[p].body
                   \/ /\ wire[p].status = "rejected"
                      /\ outcome[p] = Thrown(wire[p].error)

\* A search with maxResults zero and without fetchAll has returned a page
\* that holds a resource and a 'next' link, after one request.
C12_Witness ==
    \E p \in Procs :
        /\ pc[p] = "done" /\ op[p].name = "search" /\ ~op[p].fetchAll
        /\ op[p].maxResults = Given(0)
        /\ reqs[p] = 1
        /\ outcome[p] = Returned(Bundle(<<2>>, TRUE, <<"page2">>))

(***************************************************************************)
(* C13.  mergeSearchParams yields, for each key of either source, the      *)
(* values of the query string from left to right followed by the explicit  *)
(* values in the caller's order, duplicates kept: a list when the key has  *)
(* more than one value, a bare scalar only when the key appears exactly    *)
(* once across both sources; and it yields no other key.  The code looks   *)
(* the key up on an object literal, so a key that names a member of        *)
(* Object.prototype finds the inherited function as its first value.       *)
(***************************************************************************)
C13_MergedValuesInOrder ==
    [][(ret.status = "none" /\ ret'.status = "ok") =>
         LET query == URLSearchParams(args.query)
             explicit == IF args.hasParams THEN heap.params ELSE <<>>
             merged == ret'.value
         IN \A k \in {query[i].key : i \in 1..Len(query)}
                      \cup {explicit[i].key : i \in 1..Len(explicit)}
                      \cup {merged[i].key : i \in 1..Len(merged)} :
              LET inQuery == SelectSeq(query, LAMBDA e : e.key = k)
                  inExplicit == SelectSeq(explicit, LAMBDA e : e.key = k)
                  expected ==
                      [i \in 1..Len(inQuery) |-> inQuery[i].value]
                          \o (IF inExplicit = <<>> THEN <<>>
                              ELSE ValuesOf(inExplicit[1].value, heap.arrays))
                  got == Get(merged, k)
              IN /\ HasOwn(merged, k)
                 /\ Len(inQuery) + Len(inExplicit) > 0
                 /\ ValuesOf(got, heap'.arrays) = expected
                 /\ Len(expected) > 1 => got.kind = "array"
                 /\ got.kind = "scalar" => Len(inQuery) + Len(inExplicit) = 1
      ]_vars

(***************************************************************************)
(* C14.  mergeSearchParams leaves its inputs as they were: the explicit    *)
(* map has the same entries and every array the caller passed the same     *)
(* items after the call as before it.  Called with an empty explicit map   *)
(* it yields what it yields without one.                                   *)
(***************************************************************************)
C14_InputsNotMutated ==
    /\ [][(ret.status = "none" /\ ret'.status = "ok") =>
            /\ args' = args
            /\ heap'.params = heap.params
            /\ \A a \in 1..Len(heap.arrays) :
                   heap'.arrays[a] = heap.arrays[a]]_vars
    /\ [](ret.status = "ok" /\ args.hasParams /\ heap.params = <<>> =>
            LET absent == mergeSearchParams(args.query, FALSE, NoHeap)
            IN Deep(ret.value, heap.arrays) = Deep(absent.merged, absent.arrays))

\* 'name=x' was merged with {name: ['y']}: the result is a new array of x
\* and y, and the caller's array still holds y alone.
C14_Witness ==
    /\ ret.status = "ok"
    /\ args.query = <<"name", "=", "x">> /\ args.hasParams
    /\ heap.params = <<[key |-> <<"name">>, value |-> ArrayRef(1)]>>
    /\ heap.arrays[1] = <<Scalar(<<"y">>)>>
    /\ ret.value = <<[key |-> <<"name">>, value |-> ArrayRef(2)]>>
    /\ heap.arrays[2] = <<Scalar(<<"x">>), Scalar(<<"y">>)>>

C16_Stu3AndR4bAccepted ==
    ret.fn = "normalizeFhirVersion" =>
        LET token == args.version[1] IN
        /\ token \in {"STU3", "3.0.2"} =>
               (ret.status = "ok" /\ ret.value = <<"3.0">>)
        /\ token \in {"4.3.0", "4.3", "R4B"} =>
               (ret.status = "ok" /\ ret.value = <<"4.3">>)

(***************************************************************************)
(* C20.  The headers the constructor hands to the transport keep the       *)
(* computed Accept header even when config.headers has an Accept of its    *)
(* own.  The constructor spreads config.headers after the computed Accept, *)
(* so the caller's value replaces it.                                      *)
(***************************************************************************)
C20_ComputedAcceptIsKept ==
    (client.constructed /\ HasOwn(config.headers, "Accept")) =>
        \E i \in 1..Len(client.headers) :
            /\ client.headers[i].key = "Accept"
            /\ client.headers[i].value =
                   FhirJson(normalizeFhirVersion(config.fhirVersion).value[1])

(***************************************************************************)
(* C17.  processTransaction rejects every input whose resourceType is not  *)
(* 'Bundle' with the 'requires a Bundle resource' error, and every Bundle  *)
(* whose type is not 'transaction' with an error naming 'transaction' and  *)
(* the type it got; processBatch does the same with 'batch'.  The check of *)
(* the resourceType comes first.  A rejected call makes no request, calls  *)
(* no transport and leaves the cache as it was.                            *)
(***************************************************************************)
C17_WrongBundleRejected ==
    /\ [](\A p \in Procs :
            \A n \in {"processTransaction", "processBatch"} :
                LET expected == IF n = "processTransaction" THEN "transaction"
                                ELSE "batch"
                    arg == op[p].arg
                IN (/\ op[p].name = n
                    /\ (arg.resourceType # "Bundle" \/ arg.type # expected))
                   => /\ pc[p] = "done"
                      /\ reqs[p] = 0 /\ tcalls[p] = 0
                      /\ outcome[p] =
                             IF arg.resourceType # "Bundle"
                             THEN ThrownWith(NotABundle, <<n, arg.resourceType>>)
                             ELSE ThrownWith(WrongBundleType,
                                             <<n, expected, arg.type>>))
    /\ [][\A p \in Procs :
            (/\ op[p] = NoOp
             /\ op'[p].name \in {"processTransaction", "processBatch"}
             /\ outcome'[p].status = "error")
            => (cache' = cache /\ req' = req /\ reqs' = reqs
                /\ tcalls' = tcalls)]_vars

\* processBatch was handed a transaction bundle while the cache held an
\* entry: it has failed naming both types, and no request was made.
C17_Witness ==
    \E p \in Procs :
        /\ pc[p] = "done"
        /\ op[p] = processBatch(Resource("Bundle", "", "transaction"))
        /\ outcome[p] = ThrownWith(WrongBundleType,
                                   <<"processBatch", "batch", "transaction">>)
        /\ reqs[p] = 0 /\ tcalls[p] = 0
        /\ Len(cache) > 0

(***************************************************************************)
(* C18.  update fails with a validation error before any network call when *)
(* the resource has no resourceType or no id, and otherwise issues a PUT   *)
(* to '<resourceType>/<id>' taken from the resource.  The code takes the   *)
(* type and the id as arguments of their own and never looks into the      *)
(* resource.                                                               *)
(***************************************************************************)
C18_UpdateValidatesResource ==
    \A p \in Procs :
        op[p].name = "update" =>
            LET arg == op[p].arg IN
            IF arg.resourceType = ""
            THEN /\ pc[p] = "done" /\ tcalls[p] = 0
                 /\ outcome[p] =
                        Thrown("Resource must have a resourceType property")
            ELSE IF arg.id = ""
            THEN /\ pc[p] = "done" /\ tcalls[p] = 0
                 /\ outcome[p] = Thrown(
                        "Resource must have an id property for update operation")
            ELSE /\ req[p].cfg.method = "PUT"
                 /\ req[p].cfg.url = <<arg.resourceType, arg.id>>

(***************************************************************************)
(* C19.  Every POST, PUT or PATCH request handed to the transport carries  *)
(* a Content-Type header: the one the operation supplied, with its headers *)
(* as they were, when it supplied one (the form-encoding type of an asPost *)
(* search), otherwise 'application/fhir+json; fhirVersion=' followed by    *)
(* the canonical version of the client.  Other requests get no header.     *)
(***************************************************************************)
C19_MutationsCarryContentType ==
    [][\A p \in Procs :
         TransportCalled(p) =>
             LET supplied == op'[p].cfg.headers
                 sent == req'[p].cfg
                 version == config.fhirVersion
                 canonical == IF version \in {"3.0.1", "3.0", "R3"} THEN "3.0"
                              ELSE IF version \in {"4.0.1", "4.0", "R4"}
                                   THEN "4.0"
                                   ELSE "5.0"
             IN /\ sent.method = op'[p].cfg.method /\ sent.url = op'[p].cfg.url
                /\ IF sent.method \notin {"POST", "PUT", "PATCH"}
                   THEN sent.headers = supplied
                   ELSE IF \E i \in 1..Len(supplied) :
                                supplied[i].key = "Content-Type"
                   THEN sent.headers = supplied
                   ELSE sent.headers =
                            <<[key |-> "Content-Type",
                               value |-> <<"application/fhir+json; fhirVersion=",
                                           canonical>>]>>]_vars

\* On a client of version '3.0.1' a create is awaiting the transport, its
\* request carrying the Content-Type of version '3.0'.
C19_Witness ==
    \E p \in Procs :
        /\ config.fhirVersion = "3.0.1"
        /\ pc[p] = "awaiting" /\ op[p].name = "create" /\ tcalls[p] = 1
        /\ op[p].cfg.headers = <<>>
        /\ req[p].cfg.headers =
               <<[key |-> "Content-Type",
                  value |-> <<"application/fhir+json; fhirVersion=", "3.0">>]>>

(***************************************************************************)
(* C21.  A search sent by POST goes to the path of its target with the     *)
(* segment '_search' appended, unless the path already ends with that      *)
(* segment, and then to the path as it is.  The code tests whether the     *)
(* path contains the segment, so a path with '_search' in the middle is    *)
(* used as it is.                                                          *)
(***************************************************************************)
C21_SearchSubPathAppended ==
    \A p \in Procs :
        PostSearchSent(p) =>
            LET path == PathOf(op[p].target) IN
            req[p].cfg.url =
                IF Len(path) >= 2 /\ path[Len(path)] = "_search" THEN path
                ELSE path \o <<"_search">>

(***************************************************************************)
(* C22.  The form body of a search sent by POST has one field per value of *)
(* every parameter, in order: an array of n values gives n fields of the   *)
(* same key.  The code encodes String(value), so an array gives a single   *)
(* field whose value is the items joined with an encoded comma.            *)
(***************************************************************************)
C22_ArraysAsRepeatedFields ==
    \A p \in Procs :
        (PostSearchSent(p) /\ PlainTarget(p)) =>
            URLSearchParams(req[p].cfg.data) = PairsOf(ByValue(op[p].params))

(***************************************************************************)
(* C23.  A search sent by GET attaches one query key per value of every    *)
(* parameter: an array of n values is n attachments of the same key, each  *)
(* with one value.  The code attaches the array as the value of one key    *)
(* and leaves its rendering to the transport.                              *)
(***************************************************************************)
C23_ArraysAsRepeatedQueryKeys ==
    \A p \in Procs :
        (GetSearchSent(p) /\ PlainTarget(p)) =>
            /\ \A i \in 1..Len(req[p].cfg.params) :
                   ~req[p].cfg.params[i].isArray
            /\ PairsOf(req[p].cfg.params) = PairsOf(ByValue(op[p].params))

C25_ParameterOrderIrrelevant ==
    [][\A p \in Procs :
         (/\ RequestBegins(p)
          /\ op'[p].name = "search"
          /\ CacheEligible(req'[p])
          /\ \E i \in 1..Len(cache) :
                 /\ ~IsStale(cache[i])
                 /\ Truthy(cache[i].value)
                 /\ KeyFor(cache[i].key, req'[p].cfg.url, req'[p].cfg.params))
         => ServedFromCache(p)]_vars

(***************************************************************************)
(* C26.  An entry enters the cache only when the transport resolves a GET: *)
(* its key names the method, url and parameters of that request and its    *)
(* value is the response.  A request served from the cache gets the value  *)
(* of the entry whose key names its own method, url and parameters, and a  *)
(* request for which the cache holds no such entry calls the transport.    *)
(***************************************************************************)
C26_EntriesAnswerTheirOwnRequest ==
    [][/\ \A e \in AllEntries(cache') \ AllEntries(cache) :
              \E p \in Procs :
                  /\ TransportResolves(p)
                  /\ req[p].cfg.method = "GET"
                  /\ KeyOfRequest(e[1], req[p].cfg)
                  /\ e[2] = wire'[p].body
       /\ \A p \in Procs :
              /\ ServedFromCache(p) =>
                     \E i \in 1..Len(cache) :
                         /\ KeyOfRequest(cache[i].key, req'[p].cfg)
                         /\ currentBundle'[p] = cache[i].value
              /\ (/\ RequestBegins(p)
                  /\ \A i \in 1..Len(cache) :
                         ~KeyOfRequest(cache[i].key, req'[p].cfg))
                 => TransportCalled(p)]_vars

\* With the response of read('Patient', '1') in the cache, a read of
\* 'Patient/2' is waiting for the transport.
C26_Witness ==
    \E p \in Procs :
        /\ \E i \in 1..Len(cache) :
               /\ cache[i].key = <<<<"method", "GET">>,
                                   <<"url", <<"Patient", "1">>>>>>
               /\ ~IsStale(cache[i]) /\ Truthy(cache[i].value)
        /\ pc[p] = "awaiting" /\ op[p].name = "read" /\ tcalls[p] = 1
        /\ req[p].cfg.url = <<"Patient", "2">>

(***************************************************************************)
(* C27.  The cache never holds more entries than its capacity.  A lookup   *)
(* that finds a live entry and a store make their key the most recently    *)
(* accessed one; the keys not accessed in a step keep their order.  A key  *)
(* leaves the cache only when a lookup finds it expired, or when a store   *)
(* of a new key finds the cache at capacity, and then it is the least      *)
(* recently accessed one.                                                  *)
(***************************************************************************)
C27_BoundedLeastRecentlyUsed ==
    /\ [](Len(cache) <= CacheMax)
    /\ [][LET accessed == UNION {Accessed(p) : p \in Procs}
              before == KeysOf(cache)
              after == KeysOf(cache')
              gone == {before[i] : i \in 1..Len(before)}
                          \ {after[i] : i \in 1..Len(after)}
          IN /\ \A k \in accessed :
                    (HasLive(cache, k) \/ \E p \in Procs : TransportResolves(p))
                        => (after # <<>> /\ after[Len(after)] = k)
             /\ SelectSeq(before, LAMBDA k : k \notin accessed \cup gone)
                    = SelectSeq(after, LAMBDA k : k \notin accessed)
             /\ \A k \in gone :
                    \/ /\ k \in accessed
                       /\ IsStale(cache[IndexOf(cache, k)])
                       /\ \E p \in Procs : RequestBegins(p)
                    \/ /\ k = before[1]
                       /\ Len(before) = CacheMax
                       /\ \E p \in Procs :
                              /\ TransportResolves(p)
                              /\ CacheEligible(req[p])
                              /\ ~HasKey(cache, CacheKey(req[p].cfg))]_vars

\* The cache is at capacity and a GET whose key it does not hold is waiting
\* for the transport: storing its response evicts an entry.
C27_Witness ==
    \E p \in Procs :
        /\ Len(cache) = CacheMax
        /\ pc[p] = "awaiting" /\ CacheEligible(req[p])
        /\ ~HasKey(cache, CacheKey(req[p].cfg))

(***************************************************************************)
(* C28.  A cacheable GET that finds the entry of its key expired calls the *)
(* transport, and the response is stored anew under that key; one that     *)
(* finds the entry not yet expired is served from the cache with its       *)
(* value.  The code takes a stored falsy response for a miss (C1), so a    *)
(* GET within the ttl of such an entry calls the transport.                *)
(***************************************************************************)
C28_ExpiryDecidesTheLookup ==
    [][\A p \in Procs :
         /\ (RequestBegins(p) /\ CacheEligible(req'[p])) =>
                LET k == CacheKey(req'[p].cfg) IN
                /\ (HasKey(cache, k) /\ ~HasLive(cache, k)) =>
                       TransportCalled(p)
                /\ HasLive(cache, k) =>
                       /\ ServedFromCache(p)
                       /\ currentBundle'[p] = cache[IndexOf(cache, k)].value
         /\ (TransportResolves(p) /\ CacheEligible(req[p])) =>
                /\ JustStored(cache', CacheKey(req[p].cfg))
                /\ cache'[Len(cache')].value = wire'[p].body]_vars

C30_LiteralReferenceIsRead ==
    \A p \in Procs :
        (pc[p] # "idle" /\ op[p].name \in ResolverNames) =>
            IF /\ ~op[p].hasParams
               /\ Len(op[p].target) = 2
               /\ PathOf(op[p].target) = op[p].target
            THEN /\ req[p].cfg.method = "GET"
                 /\ req[p].cfg.url = op[p].target
                 /\ ~req[p].cfg.hasParams
                 /\ reqs[p] = 1
                 /\ Resolved1(p) => outcome[p] = Returned(wire[p].body)
            ELSE /\ req[p].cfg.method = "GET" =>
                        /\ req[p].cfg.hasParams
                        /\ req[p].cfg.url = PathOf(op[p].target)
                 /\ req[p].cfg.method # "GET" =>
                        /\ req[p].cfg.method = "POST"
                        /\ req[p].cfg.data = FormBody(SearchParams(op[p].target,
                                                                    op[p].params))
                 /\ reqs[p] = 1

\* resolve('Patient/1') is waiting for the transport to answer its GET of
\* 'Patient/1'.
C30_Witness ==
    \E p \in Procs :
        /\ pc[p] = "awaiting" /\ op[p].name = "resolve" /\ ~op[p].hasParams
        /\ op[p].target = <<"Patient", "1">>
        /\ req[p].cfg = Request("GET", <<"Patient", "1">>)
        /\ tcalls[p] = 1


(***************************************************************************)
(* C31.  No request made for a fetchAll search with noCache reads or       *)
(* writes the cache, the first one and those for the 'next' pages alike:   *)
(* each calls the transport and leaves the cache as it is, and so does its *)
(* settling.  The code passes noCache for the first request only; the      *)
(* requests for the 'next' pages look the cache up and store in it.        *)
(***************************************************************************)
C31_WalkWithNoCacheBypasses ==
    [][\A p \in Procs :
         /\ (RequestBegins(p) /\ op'[p].fetchAll /\ op'[p].noCache)
                => (cache' = cache /\ TransportCalled(p))
         /\ (pc[p] = "awaiting" /\ op[p].fetchAll /\ op[p].noCache
                /\ pc'[p] # pc[p])
                => cache' = cache]_vars


\* Sequence s is a prefix of sequence t.
IsPrefix(s, t) == Len(s) <= Len(t) /\ SubSeq(t, 1, Len(s)) = s

(***************************************************************************)
(* C32.  While a fetchAll search is under way, every step leaves the       *)
(* results accumulated before it as a prefix of the results after it, and  *)
(* a new page adds exactly its resources at the end.  A walk that has      *)
(* failed, on the bound or on the transport, has handed no results to its  *)
(* caller.                                                                 *)
(***************************************************************************)
C32_ResultsGrowMonotonically ==
    /\ [][\A p \in Procs :
            (op[p].fetchAll /\ pc[p] # "done") =>
                /\ IsPrefix(results[p], results'[p])
                /\ results'[p] # results[p] =>
                       results'[p]
                           = results[p] \o PageResources(currentBundle[p])]_vars
    /\ [](\A p \in Procs :
            (pc[p] = "done" /\ op[p].fetchAll /\ outcome[p].status = "error")
               => (outcome[p].list = <<>> /\ outcome[p].value = Undefined))

\* The third page of a walk is awaited with the resources of the first two
\* accumulated in order.
C32_Witness ==
    \E p \in Procs :
        /\ pc[p] = "awaiting" /\ op[p].fetchAll
        /\ reqs[p] = 3 /\ results[p] = <<1, 2, 3>>


(***************************************************************************)
(* C33.  The pages of a walk are fetched one after the other.  A walk has  *)
(* made as many requests as it has got pages, or one more, and one more    *)
(* only while that request is under way or after it failed.  A request for *)
(* a further page begins only when the page before it has been received,   *)
(* and by then the resources of all pages received are accumulated.        *)
(***************************************************************************)
C33_PagesFetchedInSequence ==
    /\ [](\A p \in Procs :
            op[p].fetchAll =>
                /\ reqs[p] - pages[p] \in {0, 1}
                /\ reqs[p] = pages[p] + 1 <=>
                       (pc[p] = "awaiting" \/ wire[p].status = "rejected"))
    /\ [][\A p \in Procs :
            (RequestBegins(p) /\ op[p].fetchAll) =>
                /\ pc[p] = "returned"
                /\ pages[p] = reqs[p]
                /\ results'[p] = received[p]]_vars

\* The second page of a walk is awaited: the first has been received and its
\* resources are accumulated.
C33_Witness ==
    \E p \in Procs :
        /\ pc[p] = "awaiting" /\ op[p].fetchAll
        /\ reqs[p] = 2 /\ pages[p] = 1 /\ results[p] = <<1, 2>>


(***************************************************************************)
(* C34.  A walk accumulates the resources of a page and passes over the    *)
(* entries without one: each step after a page adds exactly the page's     *)
(* resources, and fails on the bound exactly when the resources            *)
(* accumulated, not the entries seen, exceed it.  No returned sequence     *)
(* holds an entry without a resource.                                      *)
(***************************************************************************)
C34_EntriesWithoutResourceSkipped ==
    /\ [][\A p \in Procs :
            (pc[p] = "returned" /\ op[p].fetchAll /\ Moves(p)) =>
                LET page == SelectSeq(currentBundle[p].entry,
                                      LAMBDA x : x # NoResource)
                    grown == results[p] \o page
                IN /\ results'[p] = grown
                   /\ outcome'[p].error = LimitExceeded
                          <=> Len(grown) > EffectiveBound(op[p])]_vars
    /\ [](\A p \in Procs :
            (pc[p] = "done" /\ op[p].fetchAll) =>
                \A i \in 1..Len(outcome[p].list) :
                    outcome[p].list[i] # NoResource)

\* Under a bound of one, a first page of two entries, one of them without a
\* resource, has been accumulated without failure and the next page is
\* awaited.
C34_Witness ==
    \E p \in Procs :
        /\ pc[p] = "awaiting" /\ op[p].fetchAll /\ reqs[p] = 2
        /\ EffectiveBound(op[p]) = 1
        /\ currentBundle[p] = Bundle(<<NoResource, 3>>, TRUE, <<"page2">>)
        /\ results[p] = <<3>>


(***************************************************************************)
(* C35.  Every request of a walk after the first is a GET of the url of    *)
(* the 'next' link of the page before it, with nothing else: no params, no *)
(* data and no headers of the search, also when the search was sent by     *)
(* POST.                                                                   *)
(***************************************************************************)
C35_NextPagesByPlainGet ==
    [][\A p \in Procs :
         (RequestBegins(p) /\ op[p].fetchAll) =>
             /\ req'[p].cfg.method = "GET"
             /\ req'[p].cfg.url = currentBundle[p].nextUrl
             /\ currentBundle[p].hasNext /\ currentBundle[p].nextUrl # <<>>
             /\ ~req'[p].cfg.hasParams /\ req'[p].cfg.params = <<>>
             /\ req'[p].cfg.data = <<>> /\ req'[p].cfg.headers = <<>>
             /\ op'[p] = op[p]]_vars

\* A search sent by POST with the parameter name=x awaits its second page,
\* requested by a GET of 'page2' alone.
C35_Witness ==
    \E p \in Procs :
        /\ pc[p] = "awaiting" /\ op[p].fetchAll /\ reqs[p] = 2
        /\ op[p].cfg.method = "POST" /\ op[p].cfg.data = <<"name", "=", "x">>
        /\ req[p].cfg = Request("GET", <<"page2">>)


(***************************************************************************)
(* C36.  The bound of a walk is exceeded only by more resources than it    *)
(* allows: a walk that stands at its last page with exactly as many        *)
(* resources as the effective bound returns them all, a walk fails on the  *)
(* bound only with more, and no returned sequence is longer than the       *)
(* effective bound.                                                        *)
(***************************************************************************)
C36_BoundIsStrict ==
    /\ [][\A p \in Procs :
            (/\ pc[p] = "returned" /\ op[p].fetchAll
             /\ LastPage(currentBundle[p])
             /\ Len(received[p]) = EffectiveBound(op[p])
             /\ Moves(p))
            => /\ pc'[p] = "done"
               /\ outcome'[p].status = "ok"
               /\ outcome'[p].list = received[p]]_vars
    /\ [](\A p \in Procs :
            (pc[p] = "done" /\ op[p].fetchAll) =>
                /\ outcome[p].status = "ok" =>
                       Len(outcome[p].list) <= EffectiveBound(op[p])
                /\ outcome[p].error = LimitExceeded =>
                       Len(results[p]) > EffectiveBound(op[p]))

\* A walk under a bound of three has returned exactly three resources.
C36_Witness ==
    \E p \in Procs :
        /\ pc[p] = "done" /\ op[p].fetchAll
        /\ EffectiveBound(op[p]) = 3
        /\ outcome[p].status = "ok" /\ Len(outcome[p].list) = 3


\* The walk of p is in the cycle of pages without resources: it requests
\* 'empty', or stands at a page whose 'next' link is 'empty'.
InEmptyCycle(p) ==
    /\ op[p].fetchAll
    /\ \/ req[p].cfg.url = <<"empty">>
       \/ pc[p] = "returned" /\ currentBundle[p].nextUrl = <<"empty">>

(***************************************************************************)
(* C37.  A walk whose transport calls all settle ends, by returning, by    *)
(* the limit error or by a transport error, when its chain of 'next' links *)
(* is finite or every page it follows adds a resource.  A walk in a cycle  *)
(* of pages without resources, with or without the cache, ends only when   *)
(* a transport call fails: at every page it is within the bound and has a  *)
(* 'next' link to follow, with the results it had.                         *)
(***************************************************************************)
C37_WalkTerminatesUnlessEmptyCycle ==
    /\ \A p \in Procs :
           (op[p].fetchAll /\ pc[p] # "idle")
               ~> (pc[p] = "done" \/ InEmptyCycle(p))
    /\ [](\A p \in Procs :
            InEmptyCycle(p) =>
                /\ pc[p] = "done" => wire[p].status = "rejected"
                /\ pc[p] = "returned" =>
                       /\ ~OverLimit(p) /\ HasNextUrl(currentBundle[p])
                       /\ Pushed(p) = <<1>>)

\* The walk has gone round the cycle of pages without resources: its third
\* request was for 'empty' again.
C37_Witness ==
    \E p \in Procs :
        /\ InEmptyCycle(p) /\ pc[p] = "returned" /\ reqs[p] = 3
        /\ currentBundle[p] = Bundle(<<NoResource>>, TRUE, <<"empty">>)
        /\ results[p] = <<1>>


\* p waits for the transport on a cache-eligible request with key k.
AwaitsKey(p, k) ==
    pc[p] = "awaiting" /\ CacheEligible(req[p]) /\ CacheKey(req[p].cfg) = k
\* The number of entries cache c holds for key k.
EntriesFor(c, k) == Cardinality({i \in 1..Len(c) : c[i].key = k})

(***************************************************************************)
(* C38.  On a client with a cache, a cache-eligible GET that begins while  *)
(* another caller's identical GET awaits the transport, the cache holding  *)
(* no live entry for their key, misses too and calls the transport itself, *)
(* leaving the first call pending.  Each of the two callers is handed the  *)
(* body its own transport call resolved with.  Every store leaves exactly  *)
(* one entry for the key, holding the body stored by that call, so that    *)
(* after both the entry is the one stored last.                            *)
(***************************************************************************)
C38_ConcurrentReadsNotCoalesced ==
    /\ [][\A p, q \in Procs :
            (/\ p # q
             /\ AwaitsKey(p, CacheKey(req'[q].cfg))
             /\ RequestBegins(q) /\ CacheEligible(req'[q])
             /\ ~HasLive(cache, CacheKey(req'[q].cfg)))
            => /\ pc'[q] = "awaiting" /\ TransportCalled(q)
               /\ pc'[p] = "awaiting" /\ tcalls'[p] = tcalls[p]
               /\ cache' = cache]_vars
    /\ [][\A p \in Procs :
            (TransportResolves(p) /\ CacheEligible(req[p]))
            => /\ currentBundle'[p] = wire'[p].body
               /\ EntriesFor(cache', CacheKey(req[p].cfg)) = 1
               /\ LruGet(cache', CacheKey(req[p].cfg)) = wire'[p].body
               /\ \A q \in Procs \ {p} :
                      /\ currentBundle'[q] = currentBundle[q]
                      /\ outcome'[q] = outcome[q]]_vars
    /\ [](\A p \in Procs :
            (pc[p] = "done" /\ wire[p].status = "resolved")
                => outcome[p] = Returned(wire[p].body))

\* Both callers read Patient/1 at once and were answered differently: each
\* has its own answer, and the cache has one entry, the answer of the call
\* that resolved last.
C38_Witness ==
    /\ pc["a"] = "done" /\ pc["b"] = "done"
    /\ op["a"] = read("Patient", "1", FALSE) /\ op["b"] = op["a"]
    /\ tcalls["a"] = 1 /\ tcalls["b"] = 1
    /\ outcome["a"] = Returned(Bundle(<<1>>, FALSE, <<>>))
    /\ outcome["b"] = Returned(Bundle(<<2>>, FALSE, <<>>))
    /\ Len(cache) = 1
    /\ cache[1].value = Bundle(<<2>>, FALSE, <<>>)


\* The value header list h has under key k.
HeaderOf(h, k) == h[CHOOSE i \in 1..Len(h) : h[i].key = k].value
\* The Accept header the constructor computes for the configuration, before
\* the configuration's own headers are spread over it.
ComputedAccept == NewClient([config EXCEPT !.headers = NoHeaders]).headers[1]
\* The request p hands to the transport has a Content-Type its caller did
\* not supply.
ContentTypeInjected(p) ==
    /\ TransportCalled(p)
    /\ \E i \in 1..Len(req'[p].cfg.headers) :
           req'[p].cfg.headers[i].key = "Content-Type"
    /\ \A i \in 1..Len(op'[p].cfg.headers) :
           op'[p].cfg.headers[i].key # "Content-Type"

(***************************************************************************)
(* C39.  A client exists only for a configuration whose version token the  *)
(* switch recognizes: with any other token the constructor throws          *)
(* 'Unsupported FHIR version', and there is no client, no cache entry and  *)
(* no request.  With the configuration unchanged, the normalization at the *)
(* head of every request succeeds, and a Content-Type the client injects   *)
(* is the Accept header the constructor computed: same media type, same    *)
(* canonical version; it is the Accept header of the client itself when    *)
(* the configuration has none of its own.                                  *)
(***************************************************************************)
C39_VersionAgreesAcrossLifetime ==
    /\ [](client.constructed =>
              /\ config.fhirVersion \in FhirVersion
              /\ normalizeFhirVersion(config.fhirVersion).status = "ok")
    /\ [](config.fhirVersion \notin FhirVersion =>
              /\ ~client.constructed /\ client = NoClient /\ cache = <<>>
              /\ \A p \in Procs : pc[p] = "idle" /\ reqs[p] = 0
              /\ ret.fn = "new FhirClient" =>
                     /\ ret.status = "error"
                     /\ ret.error = UnsupportedVersion
                     /\ ret.detail = <<config.fhirVersion>>)
    /\ [][\A p \in Procs :
            ContentTypeInjected(p) =>
                /\ HeaderOf(req'[p].cfg.headers, "Content-Type")
                       = ComputedAccept.value
                /\ ComputedAccept.key = "Accept"
                /\ ComputedAccept.value[2] \in {"3.0", "4.0", "5.0"}
                /\ config.headers = NoHeaders =>
                       HeaderOf(client.headers, "Accept")
                           = HeaderOf(req'[p].cfg.headers, "Content-Type")]_vars

\* A client constructed with the token '5.0.0' and no headers of its own is
\* sending a create: the injected Content-Type and the client's Accept both
\* carry version '5.0'.
C39_Witness ==
    \E p \in Procs :
        /\ client.constructed /\ ret.fn = "new FhirClient"
        /\ config.fhirVersion = "5.0.0" /\ config.headers = NoHeaders
        /\ pc[p] = "awaiting" /\ op[p].name = "create" /\ tcalls[p] = 1
        /\ HeaderOf(req[p].cfg.headers, "Content-Type") = FhirJson("5.0")
        /\ HeaderOf(client.headers, "Accept") = FhirJson("5.0")

====
